---- MODULE Spec2Model ----
(***************************************************************************)
(* Verification model of grammarly-mcp: the threshold evaluator            *)
(* thresholdsMet, the retry executor withRetry and the orchestrator        *)
(* runGrammarlyOptimization (grammarlyOptimizer.ts), and the browser       *)
(* providers behind the BrowserProvider interface, with the server's       *)
(* progress callback, the Browserbase session manager, the Stagehand       *)
(* scoring task and the timeout race of the LLM collaborator calls.        *)
(*                                                                         *)
(* The specifications of the module:                                       *)
(*   SpecThresholds   thresholdsMet applied to every bounded input         *)
(*   SpecRetry        one call of withRetry against an arbitrary operation *)
(*   Spec             one invocation of runGrammarlyOptimization           *)
(*   SpecLive         the same, every awaited call eventually settling     *)
(*   SpecProgress     the progress checkpoints of failure-free runs        *)
(*   SpecInvocations  two concurrent invocations and their sessions        *)
(*   SpecProviders    both providers given the same interface calls        *)
(*   SpecSubmit       the text each backend submits for scoring            *)
(*   SpecServerProgress  the onProgress callback built by the server       *)
(*   SpecSessionManager  one BrowserbaseSessionManager and its sessions    *)
(*   SpecTask         one call of runStagehandGrammarlyTask                *)
(*   SpecLlm          the LLM collaborator calls and their timeout timers  *)
(***************************************************************************)
EXTENDS Integers, Sequences, FiniteSets, TLC

VARIABLES
    \* ---- thresholdsMet harness
    tm_pc,          \* "input" | "done"
    scores,         \* the GrammarlyScores argument
    maxAiPercent,   \* ceiling arguments
    maxPlagiarismPercent,
    tm_result,      \* the returned boolean
    \* ---- withRetry (shared by SpecRetry and by the orchestrator's call sites)
    wr_pc,          \* "entry" | "call" | "wait" | "returned" | "thrown" | "idle"
    options,        \* [maxRetries, backoffMs] of the running withRetry
    attempt,        \* loop variable of withRetry
    lastError,      \* withRetry's lastError (undefined until a catch)
    fnCalls,        \* number of invocations of fn by the running withRetry
    fnLog,          \* how each invocation of fn settled, in order (observation)
    delays,         \* delays handed to setTimeout, in order (observation)
    wr_outcome,     \* how the withRetry promise settled
    \* ---- runGrammarlyOptimization
    input,          \* the GrammarlyOptimizeInput and whether onProgress is given
    run,            \* the locals of the invocation and its position (pc)
    obs,            \* what the collaborators have seen so far (observation)
    \* ---- the browser providers behind the BrowserProvider interface
    backend,        \* the sessions of the Browserbase and Browser Use clouds
    prov,           \* the provider instances: session cache and local maps
    client,         \* what each caller of a provider holds and last observed
    sub,            \* scoreText's text parameter and what each backend submits
    \* ---- components checked on their own
    progressCb,     \* the progress callback the MCP server hands to the run
    sm,             \* a BrowserbaseSessionManager and the sessions of its cloud
    task,           \* one runStagehandGrammarlyTask: main flow and fallback
    llm             \* one LLM collaborator call: request, timer, settlement

tmVars == <<tm_pc, scores, maxAiPercent, maxPlagiarismPercent, tm_result>>
wrVars == <<wr_pc, options, attempt, lastError, fnCalls, fnLog, delays, wr_outcome>>
runVars == <<input, run, obs>>
extVars == <<backend, prov, client, sub>>
auxVars == <<progressCb, sm, task, llm>>
vars == <<tmVars, wrVars, runVars, extVars, auxVars>>

-----------------------------------------------------------------------------
(* Values *)

\* A score that Grammarly did not report (number | null in GrammarlyScores).
NULL == -1

\* Granularity of the percentages enumerated in 0..100 (100 is always included).
PctStep == 25

Percents == {p \in 0..100 : p % PctStep = 0} \cup {100}

ScoreValues == Percents \cup {NULL}

\* JavaScript values a rejected promise can carry. Errors and plain objects
\* have an identity (id); strings compare by content; null and undefined are
\* single values.
Undefined == [kind |-> "undefined", id |-> "-"]
JsNull == [kind |-> "null", id |-> "-"]
ErrorObj(i) == [kind |-> "Error", id |-> i]
RangeErrorObj(i) == [kind |-> "RangeError", id |-> i]
StringVal(s) == [kind |-> "string", id |-> s]
PlainObj(i) == [kind |-> "object", id |-> i]

IsErrorInstance(v) == v.kind \in {"Error", "RangeError"}

-----------------------------------------------------------------------------
(* thresholdsMet *)

\* Mutant: the all-absent short-circuit is dropped (absence passes vacuously).
thresholdsMet_NoShortCircuit(s, maxAi, maxPlag) ==
    LET aiOk == IF s.aiDetectionPercent # NULL
                THEN s.aiDetectionPercent <= maxAi ELSE TRUE
        plagiarismOk == IF s.plagiarismPercent # NULL
                        THEN s.plagiarismPercent <= maxPlag ELSE TRUE
    IN  aiOk /\ plagiarismOk

\* Mutant: strict comparison, a score equal to its ceiling fails.
thresholdsMet_Strict(s, maxAi, maxPlag) ==
    LET aiAvailable == s.aiDetectionPercent # NULL
        plagiarismAvailable == s.plagiarismPercent # NULL
    IN  IF ~aiAvailable /\ ~plagiarismAvailable
        THEN FALSE
        ELSE (IF aiAvailable THEN s.aiDetectionPercent < maxAi ELSE TRUE)
             /\ (IF plagiarismAvailable THEN s.plagiarismPercent < maxPlag ELSE TRUE)

\* Mutant: an absent score fails its threshold instead of passing it.
thresholdsMet_AbsentFails(s, maxAi, maxPlag) ==
    LET aiAvailable == s.aiDetectionPercent # NULL
        plagiarismAvailable == s.plagiarismPercent # NULL
    IN  IF ~aiAvailable /\ ~plagiarismAvailable
        THEN FALSE
        ELSE (IF aiAvailable THEN s.aiDetectionPercent <= maxAi ELSE FALSE)
             /\ (IF plagiarismAvailable THEN s.plagiarismPercent <= maxPlag ELSE FALSE)

thresholdsMet(s, maxAi, maxPlag) ==
    LET aiAvailable == s.aiDetectionPercent # NULL
        plagiarismAvailable == s.plagiarismPercent # NULL
    IN  IF ~aiAvailable /\ ~plagiarismAvailable
        THEN FALSE
        ELSE LET aiOk == IF aiAvailable /\ s.aiDetectionPercent # NULL
                         THEN s.aiDetectionPercent <= maxAi
                         ELSE TRUE
                 plagiarismOk == IF plagiarismAvailable /\ s.plagiarismPercent # NULL
                                 THEN s.plagiarismPercent <= maxPlag
                                 ELSE TRUE
             IN  aiOk /\ plagiarismOk

\* The harness: every GrammarlyScores value and ceiling pair of the bounded
\* domain is an input; TM_Eval is the call.
TM_Init ==
    /\ tm_pc = "input"
    /\ scores \in [aiDetectionPercent : ScoreValues, plagiarismPercent : ScoreValues]
    /\ maxAiPercent \in Percents
    /\ maxPlagiarismPercent \in Percents
    /\ tm_result = FALSE

TM_Eval ==
    /\ tm_pc = "input"
    /\ tm_result' = thresholdsMet(scores, maxAiPercent, maxPlagiarismPercent)
    /\ tm_pc' = "done"
    /\ UNCHANGED <<scores, maxAiPercent, maxPlagiarismPercent>>

-----------------------------------------------------------------------------
(* withRetry *)

\* Largest maxRetries, and the most negative one (as a magnitude), tried.
MaxRetriesArg == 3
NegRetriesArg == 2

BackoffChoices == {1, 100, 1000}

\* What an operation under retry can throw.
ThrownValues ==
    {ErrorObj("e1"), ErrorObj("e2"), StringVal("string error"), PlainObj("o1"),
     JsNull, Undefined}

\* What an operation under retry can resolve with.
ResolvedValues == {StringVal("success"), StringVal("other")}

Settled(type, value) == [type |-> type, value |-> value]
NotSettled == Settled("pending", Undefined)

\* Mutant: the validation lets -1 through (off by one).
InvalidMaxRetries_OffByOne(opts) == opts.maxRetries < 0 - 1

\* if (options.maxRetries < 0) throw new RangeError(...)
InvalidMaxRetries(opts) == opts.maxRetries < 0

\* Mutant: linear instead of exponential backoff.
BackoffDelay_Linear(opts, att) == opts.backoffMs * (att + 1)

\* const delay = options.backoffMs * 2 ** attempt
BackoffDelay(opts, att) == opts.backoffMs * 2 ^ att

\* Mutant: one retry too few.
RetryAllowed_OneLess(opts, att) == att < opts.maxRetries - 1

\* if (attempt < options.maxRetries): a failed attempt is followed by a wait
RetryAllowed(opts, att) == att < opts.maxRetries

\* The tail of withRetry, after the loop: what is thrown for a given lastError.
Rethrown(err) ==
    IF err = Undefined
    THEN ErrorObj("withRetry failed without error")
    ELSE IF IsErrorInstance(err) THEN err ELSE err

\* Entry of withRetry(fn, opts): validation, then the loop is entered (or
\* skipped when its condition is false at once).
WR_Enter(opts) ==
    /\ options' = opts
    /\ fnCalls' = 0
    /\ fnLog' = <<>>
    /\ delays' = <<>>
    /\ attempt' = 0
    /\ lastError' = Undefined
    /\ IF InvalidMaxRetries(opts)
       THEN /\ wr_pc' = "thrown"
            /\ wr_outcome' = Settled("rejected",
                                     RangeErrorObj("maxRetries must be non-negative"))
       ELSE IF 0 <= opts.maxRetries
       THEN /\ wr_pc' = "call"
            /\ wr_outcome' = NotSettled
       ELSE /\ wr_pc' = "thrown"
            /\ wr_outcome' = Settled("rejected", Rethrown(Undefined))

\* return await fn(): fn resolved with v.
WR_FnResolves(v) ==
    /\ fnCalls' = fnCalls + 1
    /\ wr_pc' = "returned"
    /\ fnLog' = Append(fnLog, Settled("fulfilled", v))
    /\ wr_outcome' = Settled("fulfilled", v)
    /\ UNCHANGED <<options, attempt, lastError, delays>>

\* catch (error): fn rejected with e. Either the backoff timer is started, or
\* (last attempt) the loop ends and the tail of the function throws.
WR_FnRejects(e) ==
    /\ fnCalls' = fnCalls + 1
    /\ fnLog' = Append(fnLog, Settled("rejected", e))
    /\ lastError' = e
    /\ UNCHANGED options
    /\ IF RetryAllowed(options, attempt)
       THEN /\ delays' = Append(delays, BackoffDelay(options, attempt))
            /\ wr_pc' = "wait"
            /\ UNCHANGED <<attempt, wr_outcome>>
       ELSE /\ attempt' = attempt + 1
            /\ UNCHANGED delays
            /\ IF attempt + 1 <= options.maxRetries
               THEN /\ wr_pc' = "call"
                    /\ UNCHANGED wr_outcome
               ELSE /\ wr_pc' = "thrown"
                    /\ wr_outcome' = Settled("rejected", Rethrown(e))

\* withRetry returned to the orchestrator: its locals are gone.
WR_Leave ==
    /\ wr_pc' = "idle"
    /\ options' = [maxRetries |-> 0, backoffMs |-> 1]
    /\ attempt' = 0
    /\ lastError' = Undefined
    /\ fnCalls' = 0
    /\ fnLog' = <<>>
    /\ delays' = <<>>
    /\ wr_outcome' = NotSettled

\* The setTimeout of the backoff fired: attempt++ and the loop condition.
WR_BackoffElapsed ==
    /\ attempt' = attempt + 1
    /\ UNCHANGED <<options, lastError, fnCalls, fnLog, delays>>
    /\ IF attempt + 1 <= options.maxRetries
       THEN /\ wr_pc' = "call"
            /\ UNCHANGED wr_outcome
       ELSE /\ wr_pc' = "thrown"
            /\ wr_outcome' = Settled("rejected", Rethrown(lastError))

\* ---- values of runGrammarlyOptimization, and its state before any call
InputText == 0
NoSession == 0
NoScores == [aiDetectionPercent |-> NULL, plagiarismPercent |-> NULL]

-----------------------------------------------------------------------------
(* The browser providers behind the BrowserProvider interface             *)
(* (browser/provider.ts, stagehand/index.ts, stagehand/sessionManager.ts, *)
(* browserUseProvider.ts).  One provider operation is one step: every     *)
(* request it makes to its cloud is answered by the response record r.    *)

NumBackendSessions == 2
BackendIds == 1..NumBackendSessions
ProviderKinds == {"stagehand", "browser-use"}

\* A cloud knows each id as not (yet) existing, as running or as released.
NoSessions == [i \in BackendIds |-> "ABSENT"]

\* The answers of the cloud to the requests of one operation: retrieving a
\* session, creating one, initialising Stagehand on it, closing the Stagehand
\* instance, releasing (deleting) the session and running the scoring task.
Responses ==
    [retrieveOk : BOOLEAN, createOk : BOOLEAN, initOk : BOOLEAN,
     closeOk : BOOLEAN, releaseOk : BOOLEAN, taskOk : BOOLEAN]

\* The requests an operation can make; the answers to the others are moot
\* and fixed to success.
RequestsOf(op) ==
    CASE op = "createSession" -> {"retrieveOk", "createOk", "initOk", "releaseOk"}
      [] op = "scoreText" -> {"taskOk"}
      [] op = "closeSession" -> {"closeOk", "releaseOk"}

ResponsesTo(op) ==
    {r \in Responses :
        \A f \in DOMAIN r : f \notin RequestsOf(op) => r[f]}

\* The id the cloud gives to the next session it creates (none when the
\* bounded id space is used up).
FreshId(sessions) ==
    IF \E i \in BackendIds : sessions[i] = "ABSENT"
    THEN CHOOSE i \in BackendIds :
            /\ sessions[i] = "ABSENT"
            /\ \A j \in BackendIds : sessions[j] = "ABSENT" => i <= j
    ELSE NoSession

\* A creation request succeeds when the cloud accepts it; a release request
\* only for a session the cloud knows; a scoring task only on a running one.
CreateAccepted(sessions, r) == r.createOk /\ FreshId(sessions) # NoSession
ReleaseAccepted(sessions, id, r) == r.releaseOk /\ sessions[id] # "ABSENT"
TaskSucceeds(sessions, id, r) == r.taskOk /\ sessions[id] = "RUNNING"

\* createBrowserProvider: a new provider object per call; the Stagehand
\* provider's session manager starts from config.browserbaseSessionId ?? null.
createBrowserProvider(kind, browserbaseSessionId) ==
    [kind |-> kind,
     cachedSessionId |-> IF kind = "stagehand" THEN browserbaseSessionId
                         ELSE NoSession,
     stagehandInstances |-> {},
     activeSessions |-> {}]

Fulfilled(v) == Settled("fulfilled", v)
Rejected(e) == Settled("rejected", e)

\* BrowserbaseSessionManager.isSessionActive: false on any retrieval error.
SM_isSessionActive(sessions, id, r) == r.retrieveOk /\ sessions[id] = "RUNNING"

\* BrowserbaseSessionManager.getOrCreateSession (forceNew is never passed).
SM_getOrCreateSession(p, sessions, r) ==
    IF p.cachedSessionId # NoSession
       /\ SM_isSessionActive(sessions, p.cachedSessionId, r)
    THEN [prov |-> p, sessions |-> sessions, threw |-> FALSE,
          id |-> p.cachedSessionId]
    ELSE IF CreateAccepted(sessions, r)
    THEN LET id == FreshId(sessions) IN
         [prov |-> [p EXCEPT !.cachedSessionId = id],
          sessions |-> [sessions EXCEPT ![id] = "RUNNING"],
          threw |-> FALSE, id |-> id]
    ELSE [prov |-> p, sessions |-> sessions, threw |-> TRUE, id |-> NoSession]

\* Mutant: a failed release request is raised to the caller.
SM_closeSession_Rethrows(p, sessions, id, r) ==
    IF ReleaseAccepted(sessions, id, r)
    THEN [prov |-> [p EXCEPT !.cachedSessionId = IF @ = id THEN NoSession ELSE @],
          sessions |-> [sessions EXCEPT ![id] = "RELEASED"], threw |-> FALSE]
    ELSE [prov |-> p, sessions |-> sessions, threw |-> TRUE]

\* BrowserbaseSessionManager.closeSession: the cache entry is cleared only
\* after the release request succeeded; a failure is logged and swallowed.
SM_closeSession(p, sessions, id, r) ==
    IF ReleaseAccepted(sessions, id, r)
    THEN [prov |-> [p EXCEPT !.cachedSessionId = IF @ = id THEN NoSession ELSE @],
          sessions |-> [sessions EXCEPT ![id] = "RELEASED"], threw |-> FALSE]
    ELSE [prov |-> p, sessions |-> sessions, threw |-> FALSE]

\* StagehandProvider.createSession ("obtained" is the session the session
\* manager handed over, whether or not the operation then succeeds).
SH_createSession(p, sessions, r) ==
    LET got == SM_getOrCreateSession(p, sessions, r) IN
    IF got.threw
    THEN [prov |-> got.prov, sessions |-> got.sessions, obtained |-> NoSession,
          outcome |-> Rejected(ErrorObj("sessions.create"))]
    ELSE IF r.initOk
    THEN [prov |-> [got.prov EXCEPT !.stagehandInstances = @ \cup {got.id}],
          sessions |-> got.sessions, obtained |-> got.id,
          outcome |-> Fulfilled(got.id)]
    ELSE LET rel == SM_closeSession(got.prov, got.sessions, got.id, r) IN
         [prov |-> rel.prov, sessions |-> rel.sessions, obtained |-> got.id,
          outcome |-> Rejected(IF rel.threw THEN ErrorObj("sessions.update")
                               ELSE ErrorObj("stagehand.init"))]

\* StagehandProvider.scoreText: refuses an id without a Stagehand instance.
SH_scoreText(p, sessions, id, r) ==
    [prov |-> p, sessions |-> sessions, obtained |-> NoSession,
     outcome |-> IF id \notin p.stagehandInstances
                 THEN Rejected(ErrorObj("No Stagehand instance found"))
                 ELSE IF TaskSucceeds(sessions, id, r)
                 THEN Fulfilled(StringVal("scores"))
                 ELSE Rejected(ErrorObj("grammarly task"))]

\* Mutant: closeSession releases the session but keeps the Stagehand instance.
SH_closeSession_KeepsInstance(p, sessions, id, r) ==
    LET rel == SM_closeSession(p, sessions, id, r)
    IN [prov |-> rel.prov, sessions |-> rel.sessions, obtained |-> NoSession,
        outcome |-> IF rel.threw THEN Rejected(ErrorObj("sessions.update"))
                    ELSE Fulfilled(Undefined)]

\* StagehandProvider.closeSession: a failing stagehand.close() is caught and
\* logged, the instance is forgotten either way, then the session manager
\* releases the session.
SH_closeSession(p, sessions, id, r) ==
    LET forgot == [p EXCEPT !.stagehandInstances = @ \ {id}]
        rel == SM_closeSession(forgot, sessions, id, r)
    IN [prov |-> rel.prov, sessions |-> rel.sessions, obtained |-> NoSession,
        outcome |-> IF rel.threw THEN Rejected(ErrorObj("sessions.update"))
                    ELSE Fulfilled(Undefined)]

\* BrowserUseProvider.createSession (createGrammarlySession, then the map).
BU_createSession(p, sessions, r) ==
    IF CreateAccepted(sessions, r)
    THEN LET id == FreshId(sessions) IN
         [prov |-> [p EXCEPT !.activeSessions = @ \cup {id}],
          sessions |-> [sessions EXCEPT ![id] = "RUNNING"], obtained |-> id,
          outcome |-> Fulfilled(id)]
    ELSE [prov |-> p, sessions |-> sessions, obtained |-> NoSession,
          outcome |-> Rejected(ErrorObj("createGrammarlySession"))]

\* BrowserUseProvider.scoreText: the map only supplies the live URL; the task
\* is sent for whatever id the caller passes.
BU_scoreText(p, sessions, id, r) ==
    [prov |-> p, sessions |-> sessions, obtained |-> NoSession,
     outcome |-> IF TaskSucceeds(sessions, id, r)
                 THEN Fulfilled(StringVal("scores"))
                 ELSE Rejected(ErrorObj("grammarly task"))]

\* BrowserUseProvider.closeSession: try deleteSession, catch and log, finally
\* forget the id.
BU_closeSession(p, sessions, id, r) ==
    [prov |-> [p EXCEPT !.activeSessions = @ \ {id}],
     sessions |-> IF ReleaseAccepted(sessions, id, r)
                  THEN [sessions EXCEPT ![id] = "RELEASED"] ELSE sessions,
     obtained |-> NoSession,
     outcome |-> Fulfilled(Undefined)]

\* The three operations of the BrowserProvider interface, by backend.
ProviderOps == {"createSession", "scoreText", "closeSession"}

Apply(p, sessions, op, id, r) ==
    IF p.kind = "stagehand"
    THEN CASE op = "createSession" -> SH_createSession(p, sessions, r)
           [] op = "scoreText" -> SH_scoreText(p, sessions, id, r)
           [] op = "closeSession" -> SH_closeSession(p, sessions, id, r)
    ELSE CASE op = "createSession" -> BU_createSession(p, sessions, r)
           [] op = "scoreText" -> BU_scoreText(p, sessions, id, r)
           [] op = "closeSession" -> BU_closeSession(p, sessions, id, r)

\* A caller of a provider: what it holds and how its last call settled.
NoCall ==
    [op |-> "none", id |-> NoSession, refused |-> FALSE, obtained |-> NoSession,
     known |-> FALSE, closedBefore |-> FALSE, outcome |-> NotSettled]
NewClient ==
    [phase |-> "new", held |-> NoSession, attempts |-> 0, created |-> {},
     closed |-> {}, open |-> {}, last |-> NoCall]

\* What a caller knows after the call op(id) answered by r gave res
\* ("refused": the cloud refused a request the operation can make).
Observe(c, op, id, r, res) ==
    [c EXCEPT
        !.created = IF op = "createSession" /\ res.outcome.type = "fulfilled"
                    THEN @ \cup {res.outcome.value} ELSE @,
        !.closed = IF op = "closeSession" THEN @ \cup {id} ELSE @,
        !.open = IF op = "createSession" /\ res.outcome.type = "fulfilled"
                 THEN @ \cup {res.outcome.value}
                 ELSE IF op = "closeSession" THEN @ \ {id} ELSE @,
        !.last = [op |-> op, id |-> id,
                  refused |-> \E f \in RequestsOf(op) : ~r[f],
                  obtained |-> res.obtained,
                  known |-> id \in c.created, closedBefore |-> id \in c.closed,
                  outcome |-> res.outcome]]

\* The text handed to scoreText and what reaches the scoring surface.
Sub_IdleInit == sub = [pc |-> "idle"]

Ext_IdleInit ==
    /\ backend = [k \in ProviderKinds |-> NoSessions]
    /\ prov = <<>>
    /\ client = <<>>
    /\ Sub_IdleInit

\* The components checked on their own, not in use.
Cb_IdleInit == progressCb = [pc |-> "idle"]
Sm_IdleInit == sm = [pc |-> "idle"]
Task_IdleInit == task = [pc |-> "idle"]
Llm_IdleInit == llm = [pc |-> "idle"]
Aux_IdleInit == Cb_IdleInit /\ Sm_IdleInit /\ Task_IdleInit /\ Llm_IdleInit

-----------------------------------------------------------------------------

Run_IdleInit ==
    /\ input = [text |-> InputText, mode |-> "score_only", max_ai_percent |-> 0,
                max_plagiarism_percent |-> 0, max_iterations |-> 1,
                onProgress |-> FALSE]
    /\ run = [pc |-> "idle", history |-> <<>>, currentText |-> InputText,
              lastScores |-> NoScores, iterationsUsed |-> 0,
              reachedThresholds |-> FALSE, iteration |-> 0, provider |-> FALSE,
              sessionId |-> NoSession, reasoning |-> 0, notes |-> "",
              pending |-> NotSettled, outcome |-> NotSettled]
    /\ obs = [progress |-> <<>>, rewriteCalls |-> 0, analyzeCalls |-> 0,
              summarizeCalls |-> 0, scorePasses |-> 0, closeCalls |-> <<>>,
              closeFailed |-> FALSE, created |-> NoSession,
              rewriteArgs |-> [originalText |-> InputText, lastScores |-> NoScores],
              rewriteOut |-> InputText,
              analyzeArgs |-> [text |-> InputText, scores |-> NoScores],
              analyzeOut |-> "",
              scoreArgs |-> [sessionId |-> NoSession, text |-> InputText,
                             iteration |-> 0],
              summarizeArgs |-> [iterationsUsed |-> 0, thresholdsMet |-> FALSE,
                                 history |-> <<>>, finalText |-> InputText],
              thrownBy |-> "none"]

\* ---- SpecRetry: one withRetry call against an arbitrary operation
WR_IdleInit ==
    /\ wr_pc = "idle"
    /\ options = [maxRetries |-> 0, backoffMs |-> 1]
    /\ attempt = 0
    /\ lastError = Undefined
    /\ fnCalls = 0
    /\ fnLog = <<>>
    /\ delays = <<>>
    /\ wr_outcome = NotSettled

TM_IdleInit ==
    /\ tm_pc = "idle"
    /\ scores = [aiDetectionPercent |-> NULL, plagiarismPercent |-> NULL]
    /\ maxAiPercent = 0
    /\ maxPlagiarismPercent = 0
    /\ tm_result = FALSE

RetryCall ==
    /\ wr_pc = "idle"
    /\ \E n \in (0 - NegRetriesArg)..MaxRetriesArg, b \in BackoffChoices :
          WR_Enter([maxRetries |-> n, backoffMs |-> b])
    /\ UNCHANGED <<auxVars, extVars, tmVars, runVars>>

RetryFnResolves ==
    /\ wr_pc = "call"
    /\ \E v \in ResolvedValues : WR_FnResolves(v)
    /\ UNCHANGED <<auxVars, extVars, tmVars, runVars>>

RetryFnRejects ==
    /\ wr_pc = "call"
    /\ \E e \in ThrownValues : WR_FnRejects(e)
    /\ UNCHANGED <<auxVars, extVars, tmVars, runVars>>

RetryBackoffElapsed ==
    /\ wr_pc = "wait"
    /\ WR_BackoffElapsed
    /\ UNCHANGED <<auxVars, extVars, tmVars, runVars>>

RetryInit ==
    WR_IdleInit /\ TM_IdleInit /\ Run_IdleInit /\ Ext_IdleInit /\ Aux_IdleInit
RetryNext == RetryCall \/ RetryFnResolves \/ RetryFnRejects \/ RetryBackoffElapsed
SpecRetry == RetryInit /\ [][RetryNext]_vars

\* ---- SpecThresholds
ThresholdsInit ==
    TM_Init /\ WR_IdleInit /\ Run_IdleInit /\ Ext_IdleInit /\ Aux_IdleInit
ThresholdsNext == TM_Eval /\ UNCHANGED <<auxVars, extVars, wrVars, runVars>>
SpecThresholds == ThresholdsInit /\ [][ThresholdsNext]_vars
-----------------------------------------------------------------------------
(* runGrammarlyOptimization *)

\* Largest max_iterations tried (the schema allows 1..20), number of distinct
\* session ids a backend hands out, number of distinct rewritten texts.
MaxIterations == 3
NumSessionIds == 2
NumTexts == 1

Modes == {"score_only", "analyze", "optimize"}
SessionIds == 1..NumSessionIds
RewrittenTexts == 0..NumTexts

\* The ceilings of the run, and the ScorePairs the scoring surface answers
\* with: all absent, both passing (plagiarism on its ceiling), AI failing,
\* plagiarism failing, one absent and passing, one absent and failing.
RunCeilings == {[ai |-> 50, plagiarism |-> 25]}
Scores(a, p) == [aiDetectionPercent |-> a, plagiarismPercent |-> p]
RunScorePairs ==
    {Scores(NULL, NULL), Scores(40, 25), Scores(75, 25), Scores(40, 40),
     Scores(NULL, 25), Scores(75, NULL)}

RetrySites == {"createProvider", "createSession", "initialScore", "rescore"}

\* What a failing external call rejects with. Under withRetry the value goes
\* through the retry executor, so an undefined is tried next to an Error;
\* elsewhere the orchestrator never looks at the value.
Failure(site) ==
    IF site \in RetrySites THEN {ErrorObj(site), Undefined} ELSE {ErrorObj(site)}

\* The retry budget of each withRetry call site.
\* Mutant: one more retry at every call site.
SiteOptions_Generous(site) ==
    CASE site = "createProvider" -> [maxRetries |-> 3, backoffMs |-> 1000]
      [] site = "createSession"  -> [maxRetries |-> 4, backoffMs |-> 1000]
      [] site = "initialScore"   -> [maxRetries |-> 3, backoffMs |-> 2000]
      [] site = "rescore"        -> [maxRetries |-> 3, backoffMs |-> 2000]

SiteOptions(site) ==
    CASE site = "createProvider" -> [maxRetries |-> 2, backoffMs |-> 1000]
      [] site = "createSession"  -> [maxRetries |-> 3, backoffMs |-> 1000]
      [] site = "initialScore"   -> [maxRetries |-> 2, backoffMs |-> 2000]
      [] site = "rescore"        -> [maxRetries |-> 2, backoffMs |-> 2000]

ProgressPoints ==
    {"p_session", "p_initial", "p_scoring_complete", "p_analyzing",
     "p_analysis_complete", "p_loop_start", "p_rewrite", "p_rescore",
     "p_summary", "p_complete"}

Max(a, b) == IF a >= b THEN a ELSE b
Min(a, b) == IF a <= b THEN a ELSE b

\* Mutant: the rewrite checkpoint of pass i reports the share of i passes,
\* not of the i - 1 passes already made.
ProgressValue_RewriteAhead(point, iter, maxIter) ==
    LET unit == 2 * maxIter IN
    CASE point = "p_session"           -> 5 * unit
      [] point = "p_initial"           -> 10 * unit
      [] point = "p_scoring_complete"  -> 100 * unit
      [] point = "p_analyzing"         -> 50 * unit
      [] point = "p_analysis_complete" -> 100 * unit
      [] point = "p_loop_start"        -> 15 * unit
      [] point = "p_rewrite"  ->
            Max(15 * unit, Min(85 * unit, 15 * unit + 140 * iter))
      [] point = "p_rescore"  ->
            Max(15 * unit, Min(85 * unit, 15 * unit + 140 * (iter - 1) + 70))
      [] point = "p_summary"           -> 92 * unit
      [] point = "p_complete"          -> 100 * unit

\* The percentage reported at a checkpoint, as a multiple of
\* 1/(2*max_iterations) percent so that it stays an integer:
\* Math.max(15, Math.min(85, 15 + ((iteration - 1 [+ 0.5]) / max_iterations) * 70)).
ProgressValue(point, iter, maxIter) ==
    LET unit == 2 * maxIter IN
    CASE point = "p_session"           -> 5 * unit
      [] point = "p_initial"           -> 10 * unit
      [] point = "p_scoring_complete"  -> 100 * unit
      [] point = "p_analyzing"         -> 50 * unit
      [] point = "p_analysis_complete" -> 100 * unit
      [] point = "p_loop_start"        -> 15 * unit
      [] point = "p_rewrite"  ->
            Max(15 * unit, Min(85 * unit, 15 * unit + 140 * (iter - 1)))
      [] point = "p_rescore"  ->
            Max(15 * unit, Min(85 * unit, 15 * unit + 140 * (iter - 1) + 70))
      [] point = "p_summary"           -> 92 * unit
      [] point = "p_complete"          -> 100 * unit

\* Mutant: history entries are numbered from 1.
HistoryEntry_NumberedFromOne(iter, s, note) ==
    [iteration |-> iter + 1, ai_detection_percent |-> s.aiDetectionPercent,
     plagiarism_percent |-> s.plagiarismPercent, note |-> note]

\* The HistoryEntry pushed for a scoring pass.
HistoryEntry(iter, s, note) ==
    [iteration |-> iter, ai_detection_percent |-> s.aiDetectionPercent,
     plagiarism_percent |-> s.plagiarismPercent, note |-> note]

\* Mutant: the verdict reported is the one of the baseline scores.
ResultOf_BaselineVerdict(r, iterations_used, notes) ==
    [final_text |-> r.currentText,
     ai_detection_percent |-> r.lastScores.aiDetectionPercent,
     plagiarism_percent |-> r.lastScores.plagiarismPercent,
     iterations_used |-> iterations_used,
     thresholds_met |-> thresholdsMet(Scores(r.history[1].ai_detection_percent,
                                             r.history[1].plagiarism_percent),
                                      input.max_ai_percent,
                                      input.max_plagiarism_percent),
     history |-> r.history,
     notes |-> notes]

\* Mutant: the loop variable is reported instead of iterationsUsed.
ResultOf_LoopVariable(r, iterations_used, notes) ==
    [final_text |-> r.currentText,
     ai_detection_percent |-> r.lastScores.aiDetectionPercent,
     plagiarism_percent |-> r.lastScores.plagiarismPercent,
     iterations_used |-> r.iteration,
     thresholds_met |-> r.reachedThresholds,
     history |-> r.history,
     notes |-> notes]

\* Mutant: the result always carries the caller's text.
ResultOf_InputText(r, iterations_used, notes) ==
    [final_text |-> input.text,
     ai_detection_percent |-> r.lastScores.aiDetectionPercent,
     plagiarism_percent |-> r.lastScores.plagiarismPercent,
     iterations_used |-> iterations_used,
     thresholds_met |-> r.reachedThresholds,
     history |-> r.history,
     notes |-> notes]

\* The object literal of a return statement.
ResultOf(r, iterations_used, notes) ==
    [final_text |-> r.currentText,
     ai_detection_percent |-> r.lastScores.aiDetectionPercent,
     plagiarism_percent |-> r.lastScores.plagiarismPercent,
     iterations_used |-> iterations_used,
     thresholds_met |-> r.reachedThresholds,
     history |-> r.history,
     notes |-> notes]

\* Leaving the try block: the completion is kept while finally runs.
Return(r, result) == [r EXCEPT !.pending = Settled("fulfilled", result), !.pc = "finally"]
Throw(r, e) == [r EXCEPT !.pending = Settled("rejected", e), !.pc = "finally"]

\* What the analysis collaborator can return.
AnalysisTexts == {"analysis A", "analysis B"}

\* Mutant: every mode enters the optimization loop.
ModeDispatch_AlwaysOptimize(mode) == "p_loop_start"

\* Mutant: analyze is handled like score_only.
ModeDispatch_AnalyzeAsScoreOnly(mode) ==
    IF mode = "optimize" THEN "p_loop_start" ELSE "p_scoring_complete"

\* if (mode === "score_only") {...}  if (mode === "analyze") {...}  // Mode: optimize
\* The checkpoint that follows the baseline history entry.
ModeDispatch(mode) ==
    CASE mode = "score_only" -> "p_scoring_complete"
      [] mode = "analyze"    -> "p_analyzing"
      [] OTHER               -> "p_loop_start"

\* Mutant: every pass rewrites the input text against the baseline scores.
RewriteInput_Baseline(r) ==
    [originalText |-> input.text,
     lastScores |-> Scores(r.history[1].ai_detection_percent,
                           r.history[1].plagiarism_percent)]

\* rewriteTextWithClaude(appConfig, { originalText: currentText,
\*   lastAiPercent: lastScores.aiDetectionPercent, lastPlagiarismPercent: ... })
RewriteInput(r) == [originalText |-> r.currentText, lastScores |-> r.lastScores]

\* Mutant: the loop does not break when the thresholds are met.
LoopContinues_NoBreak(reached, iter, maxIter) == iter + 1 <= maxIter

\* Mutant: the loop gives up one pass before the cap.
LoopContinues_StopsEarly(reached, iter, maxIter) == ~reached /\ iter + 1 < maxIter

\* if (reachedThresholds) break; else iteration += 1 and the loop condition.
LoopContinues(reached, iter, maxIter) == ~reached /\ iter + 1 <= maxIter

\* Mutant: cleanup only when the try block completed normally.
ShouldClose_OnlyOnSuccess(r) ==
    r.sessionId # NoSession /\ r.provider /\ r.pending.type = "fulfilled"

\* if (sessionId && provider). Session ids are the backend's non-empty
\* strings, so the truthiness test is the test against null.
ShouldClose(r) == r.sessionId # NoSession /\ r.provider

\* Mutant: a closeSession failure escapes the finally block.
AfterCloseFailure_Propagates(r, e) == Settled("rejected", e)

\* catch (error) { log("warn", ...) } around provider.closeSession: the
\* completion of the try block stands.
AfterCloseFailure(r, e) == r.pending

Run_Init ==
    /\ TM_IdleInit
    /\ WR_IdleInit
    /\ Aux_IdleInit
    /\ Ext_IdleInit
    /\ \E m \in Modes, c \in RunCeilings, n \in 1..MaxIterations, cb \in BOOLEAN :
          input = [text |-> InputText, mode |-> m, max_ai_percent |-> c.ai,
                   max_plagiarism_percent |-> c.plagiarism, max_iterations |-> n,
                   onProgress |-> cb]
    /\ run = [pc |-> "p_session", history |-> <<>>, currentText |-> InputText,
              lastScores |-> NoScores, iterationsUsed |-> 0,
              reachedThresholds |-> FALSE, iteration |-> 0, provider |-> FALSE,
              sessionId |-> NoSession, reasoning |-> 0, notes |-> "",
              pending |-> NotSettled, outcome |-> NotSettled]
    /\ obs = [progress |-> <<>>, rewriteCalls |-> 0, analyzeCalls |-> 0,
              summarizeCalls |-> 0, scorePasses |-> 0, closeCalls |-> <<>>,
              closeFailed |-> FALSE, created |-> NoSession,
              rewriteArgs |-> [originalText |-> InputText, lastScores |-> NoScores],
              rewriteOut |-> InputText,
              analyzeArgs |-> [text |-> InputText, scores |-> NoScores],
              analyzeOut |-> "",
              scoreArgs |-> [sessionId |-> NoSession, text |-> InputText,
                             iteration |-> 0],
              summarizeArgs |-> [iterationsUsed |-> 0, thresholdsMet |-> FALSE,
                                 history |-> <<>>, finalText |-> InputText],
              thrownBy |-> "none"]

\* The code between the await of a progress checkpoint and the next await.
AfterProgress(r) ==
    CASE r.pc = "p_session" -> [r EXCEPT !.pc = "createProvider"]
      [] r.pc = "p_initial" -> [r EXCEPT !.pc = "initialScore"]
      [] r.pc = "p_scoring_complete" ->
            LET met == thresholdsMet(r.lastScores, input.max_ai_percent,
                                     input.max_plagiarism_percent)
                r2 == [r EXCEPT !.reachedThresholds = met]
            IN  Return(r2, ResultOf(r2, 0,
                          IF met THEN "score_only: meets thresholds"
                                 ELSE "score_only: not met or unavailable"))
      [] r.pc = "p_analyzing" -> [r EXCEPT !.pc = "analyze"]
      [] r.pc = "p_analysis_complete" -> Return(r, ResultOf(r, 0, r.notes))
      [] r.pc = "p_loop_start" ->
            IF 1 <= input.max_iterations
            THEN [r EXCEPT !.iteration = 1, !.iterationsUsed = 1, !.pc = "p_rewrite"]
            ELSE [r EXCEPT !.iteration = 1, !.pc = "p_summary"]
      [] r.pc = "p_rewrite" -> [r EXCEPT !.pc = "rewrite"]
      [] r.pc = "p_rescore" -> [r EXCEPT !.pc = "rescore"]
      [] r.pc = "p_summary" -> [r EXCEPT !.pc = "summarize"]
      [] r.pc = "p_complete" -> Return(r, ResultOf(r, r.iterationsUsed, r.notes))

\* Entering the withRetry of a call site, when the next position is one.
EnterIfRetrySite(nextPc) ==
    IF nextPc \in RetrySites
    THEN WR_Enter(SiteOptions(nextPc))
    ELSE UNCHANGED wrVars

\* await onProgress?.(message, percent): the callback resolved, or none was given.
ProgressResolves ==
    /\ run.pc \in ProgressPoints
    /\ run' = AfterProgress(run)
    /\ obs' = [obs EXCEPT
          !.progress = IF input.onProgress
                       THEN Append(@, ProgressValue(run.pc, run.iteration,
                                                    input.max_iterations))
                       ELSE @,
          !.scorePasses = IF run'.pc \in {"initialScore", "rescore"} THEN @ + 1 ELSE @]
    /\ EnterIfRetrySite(run'.pc)
    /\ UNCHANGED <<auxVars, extVars, tmVars, input>>

\* await onProgress?.(...): the callback rejected. The first checkpoint is
\* outside the try block, every other one inside it.
ProgressRejects ==
    /\ run.pc \in ProgressPoints
    /\ input.onProgress
    /\ \E e \in Failure("onProgress") :
          /\ run' = IF run.pc = "p_session"
                    THEN [run EXCEPT !.outcome = Settled("rejected", e), !.pc = "done"]
                    ELSE Throw(run, e)
          /\ obs' = [obs EXCEPT
                !.progress = Append(@, ProgressValue(run.pc, run.iteration,
                                                     input.max_iterations)),
                !.thrownBy = "onProgress"]
    /\ UNCHANGED <<auxVars, extVars, tmVars, wrVars, input>>

\* provider = await withRetry(() => createBrowserProvider(appConfig), ...)
CreateProviderResolves ==
    /\ run.pc = "createProvider" /\ wr_pc = "call"
    /\ run' = [run EXCEPT !.provider = TRUE, !.pc = "createSession"]
    /\ WR_Enter(SiteOptions("createSession"))
    /\ UNCHANGED <<auxVars, extVars, tmVars, input, obs>>

\* sessionResult = await withRetry(() => activeProvider.createSession(...), ...)
\* followed by the "Running initial Grammarly scoring..." checkpoint.
CreateSessionResolves ==
    /\ run.pc = "createSession" /\ wr_pc = "call"
    /\ \E id \in SessionIds :
          /\ WR_Leave
          /\ run' = [run EXCEPT !.sessionId = id, !.pc = "p_initial"]
          /\ obs' = [obs EXCEPT !.created = id]
    /\ UNCHANGED <<auxVars, extVars, tmVars, input>>

\* lastScores = await withRetry(() => activeProvider.scoreText(..., iteration: 0), ...)
\* history.push(baseline); then the mode dispatch up to its first await.
InitialScoreResolves ==
    /\ run.pc = "initialScore" /\ wr_pc = "call"
    /\ \E s \in RunScorePairs :
          /\ WR_Leave
          /\ run' = [run EXCEPT
                !.lastScores = s,
                !.history = Append(@, HistoryEntry(0, s, 0)),
                !.pc = ModeDispatch(input.mode)]
          /\ obs' = [obs EXCEPT
                !.scoreArgs = [sessionId |-> run.sessionId, text |-> run.currentText,
                               iteration |-> 0]]
    /\ UNCHANGED <<auxVars, extVars, tmVars, input>>

\* const analysis = await analyzeTextWithClaude(...); reachedThresholds = ...
AnalyzeResolves ==
    /\ run.pc = "analyze"
    /\ \E analysis \in AnalysisTexts :
          /\ run' = [run EXCEPT
                !.notes = analysis,
                !.reachedThresholds = thresholdsMet(run.lastScores,
                                                    input.max_ai_percent,
                                                    input.max_plagiarism_percent),
                !.pc = "p_analysis_complete"]
          /\ obs' = [obs EXCEPT
                !.analyzeCalls = @ + 1,
                !.analyzeArgs = [text |-> run.currentText, scores |-> run.lastScores],
                !.analyzeOut = analysis]
    /\ UNCHANGED <<auxVars, extVars, tmVars, wrVars, input>>

\* const rewriteResult = await rewriteTextWithClaude(...); currentText = ...
RewriteResolves ==
    /\ run.pc = "rewrite"
    /\ \E t \in RewrittenTexts :
          /\ run' = [run EXCEPT !.currentText = t, !.reasoning = run.iteration,
                                !.pc = "p_rescore"]
          /\ obs' = [obs EXCEPT
                !.rewriteCalls = @ + 1,
                !.rewriteArgs = RewriteInput(run),
                !.rewriteOut = t]
    /\ UNCHANGED <<auxVars, extVars, tmVars, wrVars, input>>

\* lastScores = await withRetry(() => activeProvider.scoreText(..., iteration), ...)
\* reachedThresholds = thresholdsMet(...); history.push(...); break or loop.
RescoreResolves ==
    /\ run.pc = "rescore" /\ wr_pc = "call"
    /\ \E s \in RunScorePairs :
          LET met == thresholdsMet(s, input.max_ai_percent,
                                   input.max_plagiarism_percent)
              r2 == [run EXCEPT
                       !.lastScores = s,
                       !.reachedThresholds = met,
                       !.history = Append(@, HistoryEntry(run.iteration, s,
                                                          run.reasoning))]
          IN  /\ WR_Leave
              /\ run' = IF LoopContinues(met, run.iteration, input.max_iterations)
                        THEN [r2 EXCEPT !.iteration = @ + 1,
                                        !.iterationsUsed = run.iteration + 1,
                                        !.pc = "p_rewrite"]
                        ELSE [r2 EXCEPT !.iteration = IF met THEN @ ELSE @ + 1,
                                        !.pc = "p_summary"]
              /\ obs' = [obs EXCEPT
                    !.scoreArgs = [sessionId |-> run.sessionId,
                                   text |-> run.currentText,
                                   iteration |-> run.iteration]]
    /\ UNCHANGED <<auxVars, extVars, tmVars, input>>

\* const notes = await summarizeOptimizationWithClaude(...)
SummarizeResolves ==
    /\ run.pc = "summarize"
    /\ run' = [run EXCEPT !.notes = "summary", !.pc = "p_complete"]
    /\ obs' = [obs EXCEPT
          !.summarizeCalls = @ + 1,
          !.summarizeArgs = [iterationsUsed |-> run.iterationsUsed,
                             thresholdsMet |-> run.reachedThresholds,
                             history |-> run.history,
                             finalText |-> run.currentText]]
    /\ UNCHANGED <<auxVars, extVars, tmVars, wrVars, input>>

\* A rewrite / analyze / summarize call rejected: not caught, the try block ends.
CollaboratorRejects ==
    /\ run.pc \in {"analyze", "rewrite", "summarize"}
    /\ \E e \in Failure(run.pc) :
          /\ run' = Throw(run, e)
          /\ obs' = [obs EXCEPT
                !.analyzeCalls = IF run.pc = "analyze" THEN @ + 1 ELSE @,
                !.analyzeArgs = IF run.pc = "analyze"
                                THEN [text |-> run.currentText,
                                      scores |-> run.lastScores]
                                ELSE @,
                !.rewriteCalls = IF run.pc = "rewrite" THEN @ + 1 ELSE @,
                !.rewriteArgs = IF run.pc = "rewrite" THEN RewriteInput(run) ELSE @,
                !.summarizeCalls = IF run.pc = "summarize" THEN @ + 1 ELSE @,
                !.summarizeArgs = IF run.pc = "summarize"
                                  THEN [iterationsUsed |-> run.iterationsUsed,
                                        thresholdsMet |-> run.reachedThresholds,
                                        history |-> run.history,
                                        finalText |-> run.currentText]
                                  ELSE @,
                !.thrownBy = run.pc]
    /\ UNCHANGED <<auxVars, extVars, tmVars, wrVars, input>>

\* The operation of a withRetry call site rejected: withRetry waits and
\* retries, or gives up and its rejection ends the try block.
SiteFnRejects ==
    /\ run.pc \in RetrySites /\ wr_pc = "call"
    /\ \E e \in Failure(run.pc) : WR_FnRejects(e)
    /\ run' = IF wr_pc' = "thrown" THEN Throw(run, wr_outcome'.value) ELSE run
    /\ obs' = [obs EXCEPT
          !.scoreArgs = IF run.pc \in {"initialScore", "rescore"}
                        THEN [sessionId |-> run.sessionId, text |-> run.currentText,
                              iteration |-> run.iteration]
                        ELSE @,
          !.thrownBy = IF wr_pc' = "thrown" THEN run.pc ELSE @]
    /\ UNCHANGED <<auxVars, extVars, tmVars, input>>

\* The backoff timer of a call site's withRetry fired.
SiteBackoffElapsed ==
    /\ run.pc \in RetrySites /\ wr_pc = "wait"
    /\ WR_BackoffElapsed
    /\ UNCHANGED <<auxVars, extVars, tmVars, runVars>>

\* finally { if (sessionId && provider) { try { await provider.closeSession(sessionId) } ... } }
\* closeSession resolved.
CloseSessionResolves ==
    /\ run.pc = "finally" /\ ShouldClose(run)
    /\ run' = [run EXCEPT !.outcome = run.pending, !.pc = "done"]
    /\ obs' = [obs EXCEPT !.closeCalls = Append(@, run.sessionId)]
    /\ UNCHANGED <<auxVars, extVars, tmVars, wrVars, input>>

\* closeSession rejected: caught and logged inside finally.
CloseSessionRejects ==
    /\ run.pc = "finally" /\ ShouldClose(run)
    /\ \E e \in Failure("closeSession") :
          run' = [run EXCEPT !.outcome = AfterCloseFailure(run, e), !.pc = "done"]
    /\ obs' = [obs EXCEPT !.closeCalls = Append(@, run.sessionId),
                          !.closeFailed = TRUE]
    /\ UNCHANGED <<auxVars, extVars, tmVars, wrVars, input>>

\* finally with no session to close.
FinallyNothingToClose ==
    /\ run.pc = "finally" /\ ~ShouldClose(run)
    /\ run' = [run EXCEPT !.outcome = run.pending, !.pc = "done"]
    /\ UNCHANGED <<auxVars, extVars, tmVars, wrVars, input, obs>>

Init == Run_Init

Next ==
    \/ ProgressResolves
    \/ ProgressRejects
    \/ CreateProviderResolves
    \/ CreateSessionResolves
    \/ InitialScoreResolves
    \/ AnalyzeResolves
    \/ RewriteResolves
    \/ RescoreResolves
    \/ SummarizeResolves
    \/ CollaboratorRejects
    \/ SiteFnRejects
    \/ SiteBackoffElapsed
    \/ CloseSessionResolves
    \/ CloseSessionRejects
    \/ FinallyNothingToClose

Spec == Init /\ [][Next]_vars

\* ---- SpecLive: the same invocation when every awaited call (provider,
\* collaborator, progress callback) settles and every backoff timer fires.
SpecLive == Init /\ [][Next]_vars /\ WF_vars(Next)

\* ---- SpecProgress: the checkpoints of runs in which no call fails, for
\* every max_iterations the input schema admits (z.number().int().min(1).max(20))
\* and a scoring surface that answers with one passing or one failing pair.
SchemaMaxIterations == 20

QuietScorePairs == {Scores(40, 25), Scores(75, 25)}

ProgressInit ==
    /\ TM_IdleInit
    /\ WR_IdleInit
    /\ Aux_IdleInit
    /\ Ext_IdleInit
    /\ \E m \in Modes, c \in RunCeilings, n \in 1..SchemaMaxIterations :
          input = [text |-> InputText, mode |-> m, max_ai_percent |-> c.ai,
                   max_plagiarism_percent |-> c.plagiarism, max_iterations |-> n,
                   onProgress |-> TRUE]
    /\ run = [pc |-> "p_session", history |-> <<>>, currentText |-> InputText,
              lastScores |-> NoScores, iterationsUsed |-> 0,
              reachedThresholds |-> FALSE, iteration |-> 0, provider |-> FALSE,
              sessionId |-> NoSession, reasoning |-> 0, notes |-> "",
              pending |-> NotSettled, outcome |-> NotSettled]
    /\ obs = [progress |-> <<>>, rewriteCalls |-> 0, analyzeCalls |-> 0,
              summarizeCalls |-> 0, scorePasses |-> 0, closeCalls |-> <<>>,
              closeFailed |-> FALSE, created |-> NoSession,
              rewriteArgs |-> [originalText |-> InputText, lastScores |-> NoScores],
              rewriteOut |-> InputText,
              analyzeArgs |-> [text |-> InputText, scores |-> NoScores],
              analyzeOut |-> "",
              scoreArgs |-> [sessionId |-> NoSession, text |-> InputText,
                             iteration |-> 0],
              summarizeArgs |-> [iterationsUsed |-> 0, thresholdsMet |-> FALSE,
                                 history |-> <<>>, finalText |-> InputText],
              thrownBy |-> "none"]

QuietInitialScore == InitialScoreResolves /\ run'.lastScores \in QuietScorePairs
QuietRescore == RescoreResolves /\ run'.lastScores \in QuietScorePairs

ProgressNext ==
    \/ ProgressResolves
    \/ CreateProviderResolves
    \/ CreateSessionResolves
    \/ QuietInitialScore
    \/ AnalyzeResolves
    \/ RewriteResolves
    \/ QuietRescore
    \/ SummarizeResolves
    \/ CloseSessionResolves

SpecProgress == ProgressInit /\ [][ProgressNext]_vars

\* ---- SpecInvocations: two invocations of runGrammarlyOptimization running
\* concurrently under one configuration.  Each invocation constructs its own
\* provider (createBrowserProvider is called inside the run) and drives it as
\* the orchestrator does: createSession (retried), scoring passes on the
\* session it was given, closeSession of that session in the finally block.
Invocations == {1, 2}
PresetSessionId == 1

KindOf(i) == prov[i].kind

InvocationsInit ==
    /\ TM_IdleInit
    /\ WR_IdleInit
    /\ Aux_IdleInit
    /\ Run_IdleInit
    /\ Sub_IdleInit
    /\ \E kind \in ProviderKinds, preset \in {NoSession, PresetSessionId},
          st \in {"RUNNING", "RELEASED"} :
          /\ backend = [k \in ProviderKinds |->
                          IF k = "stagehand" /\ preset # NoSession
                          THEN [NoSessions EXCEPT ![preset] = st]
                          ELSE NoSessions]
          /\ prov = [i \in Invocations |-> createBrowserProvider(kind, preset)]
    /\ client = [i \in Invocations |-> NewClient]

\* One provider operation of invocation i, answered by r.
Call(i, op, id, r) ==
    LET res == Apply(prov[i], backend[KindOf(i)], op, id, r) IN
    /\ prov' = [prov EXCEPT ![i] = res.prov]
    /\ backend' = [backend EXCEPT ![KindOf(i)] = res.sessions]
    /\ client' = [client EXCEPT ![i] = Observe(client[i], op, id, r, res)]

\* withRetry(() => provider.createSession(...), {maxRetries: 3}); the session
\* id is kept for the finally block only when the call succeeded.
InvCreateSession(i) ==
    /\ client[i].phase = "new"
    /\ \E r \in ResponsesTo("createSession") :
          LET res == Apply(prov[i], backend[KindOf(i)], "createSession", NoSession, r)
              c == Observe(client[i], "createSession", NoSession, r, res)
          IN /\ prov' = [prov EXCEPT ![i] = res.prov]
             /\ backend' = [backend EXCEPT ![KindOf(i)] = res.sessions]
             /\ client' = [client EXCEPT ![i] =
                    IF res.outcome.type = "fulfilled"
                    THEN [c EXCEPT !.phase = "holding", !.held = res.outcome.value]
                    ELSE IF RetryAllowed(SiteOptions("createSession"), c.attempts)
                    THEN [c EXCEPT !.attempts = @ + 1]
                    ELSE [c EXCEPT !.phase = "failed"]]
    /\ UNCHANGED <<auxVars, tmVars, wrVars, runVars, sub>>

\* A scoring pass on the session the invocation holds.
InvScoreText(i) ==
    /\ client[i].phase = "holding"
    /\ \E r \in ResponsesTo("scoreText") : Call(i, "scoreText", client[i].held, r)
    /\ UNCHANGED <<auxVars, tmVars, wrVars, runVars, sub>>

\* The finally block: closeSession of the session the invocation holds.
InvCloseSession(i) ==
    /\ client[i].phase = "holding"
    /\ \E r \in ResponsesTo("closeSession") :
          LET res == Apply(prov[i], backend[KindOf(i)], "closeSession",
                           client[i].held, r)
              c == Observe(client[i], "closeSession", client[i].held, r, res)
          IN /\ prov' = [prov EXCEPT ![i] = res.prov]
             /\ backend' = [backend EXCEPT ![KindOf(i)] = res.sessions]
             /\ client' = [client EXCEPT ![i] = [c EXCEPT !.phase = "closed"]]
    /\ UNCHANGED <<auxVars, tmVars, wrVars, runVars, sub>>

InvocationsNext ==
    \E i \in Invocations :
        \/ InvCreateSession(i)
        \/ InvScoreText(i)
        \/ InvCloseSession(i)

SpecInvocations == InvocationsInit /\ [][InvocationsNext]_vars

\* ---- SpecProviders: a StagehandProvider and a BrowserUseProvider given the
\* same sequence of interface calls, each against its own cloud, the two
\* clouds answering alike.  The clouds may already run a session that
\* neither provider created.
Stagehand == 1
BrowserUse == 2

ProvidersInit ==
    /\ TM_IdleInit
    /\ WR_IdleInit
    /\ Aux_IdleInit
    /\ Run_IdleInit
    /\ Sub_IdleInit
    /\ \E pre \in {NoSession, PresetSessionId} :
          backend = [k \in ProviderKinds |->
                        IF pre # NoSession
                        THEN [NoSessions EXCEPT ![pre] = "RUNNING"]
                        ELSE NoSessions]
    /\ prov = [i \in {Stagehand, BrowserUse} |->
                  IF i = Stagehand
                  THEN createBrowserProvider("stagehand", NoSession)
                  ELSE createBrowserProvider("browser-use", NoSession)]
    /\ client = [i \in {Stagehand, BrowserUse} |-> NewClient]

\* Stagehand's createSession makes two requests (the Browserbase session,
\* then Stagehand on it) where Browser Use's makes one: the one answer that
\* corresponds to both is that both succeeded.
EquivalentResponses(r) == [r EXCEPT !.createOk = r.createOk /\ r.initOk]

BothCall(op, id, r) ==
    LET a == Apply(prov[Stagehand], backend["stagehand"], op, id, r)
        b == Apply(prov[BrowserUse], backend["browser-use"], op, id,
                   EquivalentResponses(r))
    IN /\ prov' = [i \in {Stagehand, BrowserUse} |->
                      IF i = Stagehand THEN a.prov ELSE b.prov]
       /\ backend' = [k \in ProviderKinds |->
                         IF k = "stagehand" THEN a.sessions ELSE b.sessions]
       /\ client' = [i \in {Stagehand, BrowserUse} |->
                        IF i = Stagehand
                        THEN Observe(client[i], op, id, r, a)
                        ELSE Observe(client[i], op, id, r, b)]
       /\ UNCHANGED <<auxVars, tmVars, wrVars, runVars, sub>>

BothCreateSession ==
    \E r \in ResponsesTo("createSession") : BothCall("createSession", NoSession, r)
BothScoreText ==
    \E id \in BackendIds, r \in ResponsesTo("scoreText") :
        BothCall("scoreText", id, r)
BothCloseSession ==
    \E id \in BackendIds, r \in ResponsesTo("closeSession") :
        BothCall("closeSession", id, r)

ProvidersNext == BothCreateSession \/ BothScoreText \/ BothCloseSession

SpecProviders == ProvidersInit /\ [][ProvidersNext]_vars

\* ---- SpecSubmit: the text parameter of scoreText and the content each
\* backend hands to the scoring surface (stagehand/grammarlyTask.ts and the
\* Browser Use grammarlyTask: sanitizeUserText, buildGrammarlyTaskPrompt).
\* A text is a sequence of lines joined by "\n"; a line is ordinary prose, a
\* line starting with one of the directive words, or a <START_USER_TEXT>
\* marker, with its number of characters.
MAX_TEXT_LENGTH == 8000
MAX_USER_TEXT_LENGTH == 8000
MaxLines == 2

Line(kind, len) == [kind |-> kind, len |-> len]
REMOVED_DIRECTIVE_PLACEHOLDER == Line("removed directive placeholder", 28)
TRUNCATION_PLACEHOLDER == Line("truncation placeholder", 27)
Marker == Line("marker", 17)

InputLines ==
    {Line("prose", n) : n \in {0, 40, 600, 7999, 8000, 9000}}
    \cup {Line("directive", n) : n \in {40, 9000}}
    \cup {Marker}

InputTexts == UNION {[1..k -> InputLines] : k \in 1..MaxLines}

RECURSIVE length(_)
\* text.length: the characters of the lines and the "\n" between them.
length(t) ==
    IF t = <<>> THEN 0
    ELSE IF Len(t) = 1 THEN t[1].len
    ELSE t[1].len + 1 + length(Tail(t))

RECURSIVE slice(_, _)
\* text.slice(0, n) for a text longer than n characters.
slice(t, n) ==
    IF t = <<>> THEN <<>>
    ELSE IF t[1].len >= n \/ Len(t) = 1
    THEN <<[t[1] EXCEPT !.len = Min(t[1].len, n)]>>
    ELSE <<t[1]>> \o slice(Tail(t), n - t[1].len - 1)

\* Mutant: the text is passed on whole.
Truncated_Never(t, max) == t

\* text.length > MAX ? text.slice(0, MAX) : text
Truncated(t, max) == IF length(t) > max THEN slice(t, max) ELSE t

\* runStagehandGrammarlyTask: the text typed (act) or filled (locator.fill)
\* into the editor.
StagehandSubmits(t) ==
    LET truncatedText == Truncated(t, MAX_TEXT_LENGTH) IN
    [via |-> IF length(truncatedText) <= 500 THEN "act" ELSE "fill",
     content |-> truncatedText]

\* sanitizeUserText up to the encoding: markers removed, directive lines
\* replaced, the result cut and a placeholder line appended when too long.
withoutMarkers(t) ==
    [i \in 1..Len(t) |-> IF t[i].kind = "marker" THEN Line("prose", 0) ELSE t[i]]

stripped(t) ==
    [i \in 1..Len(t) |->
        IF t[i].kind = "directive" THEN REMOVED_DIRECTIVE_PLACEHOLDER ELSE t[i]]

safeText(t) ==
    LET s == stripped(withoutMarkers(t)) IN
    IF length(s) > MAX_USER_TEXT_LENGTH
    THEN Append(Truncated(s, MAX_USER_TEXT_LENGTH), TRUNCATION_PLACEHOLDER)
    ELSE s

\* Buffer.from(safeText, "utf8").toString("base64") and the decoding the
\* prompt asks of the agent ("Decode it and paste the plaintext").
Base64Encode(t) == [base64 |-> t]
Base64Decode(e) == e.base64

sanitizeUserText(t) ==
    [encoded |-> Base64Encode(safeText(t)),
     truncated |-> length(stripped(withoutMarkers(t))) > MAX_USER_TEXT_LENGTH]

BrowserUseSubmits(t) ==
    [via |-> "agent", content |-> Base64Decode(sanitizeUserText(t).encoded)]

SubmitInit ==
    /\ TM_IdleInit
    /\ WR_IdleInit
    /\ Aux_IdleInit
    /\ Run_IdleInit
    /\ backend = [k \in ProviderKinds |-> NoSessions]
    /\ prov = <<>>
    /\ client = <<>>
    /\ \E t \in InputTexts : sub = [pc |-> "scoreText", text |-> t]

StagehandScoreText ==
    /\ sub.pc = "scoreText"
    /\ sub' = [pc |-> "stagehand", text |-> sub.text,
               submitted |-> StagehandSubmits(sub.text)]
    /\ UNCHANGED <<auxVars, tmVars, wrVars, runVars, backend, prov, client>>

BrowserUseScoreText ==
    /\ sub.pc = "scoreText"
    /\ sub' = [pc |-> "browser-use", text |-> sub.text,
               submitted |-> BrowserUseSubmits(sub.text)]
    /\ UNCHANGED <<auxVars, tmVars, wrVars, runVars, backend, prov, client>>

SubmitNext == StagehandScoreText \/ BrowserUseScoreText

SpecSubmit == SubmitInit /\ [][SubmitNext]_vars

\* ---- SpecServerProgress: the onProgress callback the MCP server builds for
\* a grammarly_optimize_text request (server.ts) and hands to
\* runGrammarlyOptimization, called a bounded number of times.
MaxProgressCalls == 3

NumberVal(s) == [kind |-> "number", id |-> s]

\* What the request's metadata can carry as progress token.
ProgressTokenCandidates ==
    {Undefined, JsNull, StringVal("token"), StringVal(""), NumberVal("7"),
     NumberVal("0"), PlainObj("o1")}

\* typeof candidate === "string" || typeof candidate === "number"
\*     ? candidate : undefined
progressToken(candidate) ==
    IF candidate.kind \in {"string", "number"} THEN candidate ELSE Undefined

\* JavaScript truthiness of a token value.
Truthy(v) == v \notin {Undefined, JsNull, StringVal(""), NumberVal("0")}

\* The progress argument of the callback (NULL: omitted).
ProgressArgs == {NULL, 5, 100}

\* Mutant: a failed notification is raised to the orchestrator.
OnSendFailure_Rethrows(e) == Rejected(e)

\* catch (err) { log("debug", "Failed to send progress notification", ...) }
OnSendFailure(e) == Fulfilled(Undefined)

ServerProgressInit ==
    /\ TM_IdleInit
    /\ WR_IdleInit
    /\ Run_IdleInit
    /\ Ext_IdleInit
    /\ Sm_IdleInit /\ Task_IdleInit /\ Llm_IdleInit
    /\ \E send \in BOOLEAN, c \in ProgressTokenCandidates :
          progressCb = [pc |-> "ready", sendNotification |-> send, candidate |-> c,
                        calls |-> 0, progress |-> NULL, sent |-> <<>>,
                        sendFailures |-> 0, failureLogs |-> 0, progressLogs |-> 0,
                        outcome |-> NotSettled]

\* onProgress(message, progress) up to its first await, or to its end when
\* nothing is sent.
CbCall ==
    /\ progressCb.pc = "ready"
    /\ progressCb.calls < MaxProgressCalls
    /\ \E p \in ProgressArgs :
          progressCb' =
              IF progressCb.sendNotification
                 /\ Truthy(progressToken(progressCb.candidate))
              THEN [progressCb EXCEPT !.pc = "sending", !.calls = @ + 1,
                                      !.progress = p, !.outcome = NotSettled]
              ELSE [progressCb EXCEPT !.calls = @ + 1, !.progress = p,
                                      !.progressLogs = @ + 1,
                                      !.outcome = Fulfilled(Undefined)]
    /\ UNCHANGED <<tmVars, wrVars, runVars, extVars, sm, task, llm>>

\* await extra.sendNotification({...}) resolved.
CbSendResolves ==
    /\ progressCb.pc = "sending"
    /\ progressCb' =
          [progressCb EXCEPT
              !.pc = "ready",
              !.sent = Append(@, [progressToken |-> progressToken(progressCb.candidate),
                                  progress |-> IF progressCb.progress = NULL THEN 0
                                               ELSE progressCb.progress,
                                  total |-> 100]),
              !.progressLogs = @ + 1,
              !.outcome = Fulfilled(Undefined)]
    /\ UNCHANGED <<tmVars, wrVars, runVars, extVars, sm, task, llm>>

\* await extra.sendNotification({...}) rejected (or threw).
CbSendRejects ==
    /\ progressCb.pc = "sending"
    /\ \E e \in ThrownValues :
          progressCb' =
              [progressCb EXCEPT
                  !.pc = "ready",
                  !.sendFailures = @ + 1,
                  !.failureLogs = IF OnSendFailure(e).type = "fulfilled"
                                  THEN @ + 1 ELSE @,
                  !.progressLogs = IF OnSendFailure(e).type = "fulfilled"
                                   THEN @ + 1 ELSE @,
                  !.outcome = OnSendFailure(e)]
    /\ UNCHANGED <<tmVars, wrVars, runVars, extVars, sm, task, llm>>

ServerProgressNext == CbCall \/ CbSendResolves \/ CbSendRejects

SpecServerProgress == ServerProgressInit /\ [][ServerProgressNext]_vars

\* ---- SpecSessionManager: one BrowserbaseSessionManager (sessionManager.ts)
\* and the sessions of its Browserbase project. A call is one step: the
\* requests it makes are answered by the response record r.
NoContext == 0
ContextIds == {1, 2}

\* The argument of getOrCreateSession (omitted: no contextId, no forceNew).
SmOptions == [contextId : {NoContext} \cup ContextIds, forceNew : BOOLEAN]

\* The answers of Browserbase to sessions.retrieve, sessions.create (with the
\* contextId of the created session, if it reports one) and sessions.update.
SmResponses ==
    [retrieveOk : BOOLEAN, createOk : BOOLEAN, releaseOk : BOOLEAN,
     contextId : {NoContext} \cup ContextIds]

\* Mutant: forceNew is ignored.
getOrCreateSession_IgnoresForceNew(m, sessions, opts, r) ==
    IF m.cachedSessionId # NoSession
       /\ SM_isSessionActive(sessions, m.cachedSessionId, r)
    THEN [m |-> m, sessions |-> sessions, createRequests |-> 0,
          outcome |-> Fulfilled([sessionId |-> m.cachedSessionId,
                                 contextId |-> m.cachedContextId])]
    ELSE LET contextId == IF opts.contextId # NoContext THEN opts.contextId
                          ELSE m.cachedContextId
         IN  IF CreateAccepted(sessions, r)
             THEN LET id == FreshId(sessions)
                      newContextId == IF r.contextId # NoContext THEN r.contextId
                                      ELSE contextId
                  IN  [m |-> [cachedSessionId |-> id,
                              cachedContextId |-> IF newContextId # NoContext
                                                  THEN newContextId
                                                  ELSE m.cachedContextId],
                       sessions |-> [sessions EXCEPT ![id] = "RUNNING"],
                       createRequests |-> 1,
                       outcome |-> Fulfilled([sessionId |-> id,
                                              contextId |-> newContextId])]
             ELSE [m |-> m, sessions |-> sessions, createRequests |-> 1,
                   outcome |-> Rejected(ErrorObj("sessions.create"))]

\* async getOrCreateSession(options?): reuse the cached session if it is
\* still running, else await this.bb.sessions.create(createParams) and cache
\* the new session (and its context, when there is one).
getOrCreateSession(m, sessions, opts, r) ==
    IF ~opts.forceNew
       /\ m.cachedSessionId # NoSession
       /\ SM_isSessionActive(sessions, m.cachedSessionId, r)
    THEN [m |-> m, sessions |-> sessions, createRequests |-> 0,
          outcome |-> Fulfilled([sessionId |-> m.cachedSessionId,
                                 contextId |-> m.cachedContextId])]
    ELSE LET contextId == IF opts.contextId # NoContext THEN opts.contextId
                          ELSE m.cachedContextId
         IN  IF CreateAccepted(sessions, r)
             THEN LET id == FreshId(sessions)
                      newContextId == IF r.contextId # NoContext THEN r.contextId
                                      ELSE contextId
                  IN  [m |-> [cachedSessionId |-> id,
                              cachedContextId |-> IF newContextId # NoContext
                                                  THEN newContextId
                                                  ELSE m.cachedContextId],
                       sessions |-> [sessions EXCEPT ![id] = "RUNNING"],
                       createRequests |-> 1,
                       outcome |-> Fulfilled([sessionId |-> id,
                                              contextId |-> newContextId])]
             ELSE [m |-> m, sessions |-> sessions, createRequests |-> 1,
                   outcome |-> Rejected(ErrorObj("sessions.create"))]

\* Mutant: the cache entry is cleared whatever id was closed.
closeSession_ClearsAnyId(m, sessions, id, r) ==
    IF ReleaseAccepted(sessions, id, r)
    THEN [m |-> [m EXCEPT !.cachedSessionId = NoSession],
          sessions |-> [sessions EXCEPT ![id] = "RELEASED"],
          createRequests |-> 0, outcome |-> Fulfilled(Undefined)]
    ELSE [m |-> m, sessions |-> sessions, createRequests |-> 0,
          outcome |-> Fulfilled(Undefined)]

\* async closeSession(sessionId): try { await this.bb.sessions.update(...);
\* if (this.cachedSessionId === sessionId) this.cachedSessionId = null }
\* catch (error) { log("warn", ...) }
closeSession(m, sessions, id, r) ==
    IF ReleaseAccepted(sessions, id, r)
    THEN [m |-> [m EXCEPT !.cachedSessionId = IF @ = id THEN NoSession ELSE @],
          sessions |-> [sessions EXCEPT ![id] = "RELEASED"],
          createRequests |-> 0, outcome |-> Fulfilled(Undefined)]
    ELSE [m |-> m, sessions |-> sessions, createRequests |-> 0,
          outcome |-> Fulfilled(Undefined)]

\* The last call made on the manager, with what it found and what it left.
SmCall(op, opts, id, r, res) ==
    [op |-> op, opts |-> opts, id |-> id, r |-> r,
     before |-> sm.m, sessionsBefore |-> sm.sessions,
     after |-> res.m, sessionsAfter |-> res.sessions,
     createRequests |-> res.createRequests, outcome |-> res.outcome]

\* new BrowserbaseSessionManager(config): the cache starts from
\* config.browserbaseSessionId ?? null and config.browserbaseContextId ?? null;
\* a configured session is one the project knows, running or not any more.
SessionManagerInit ==
    /\ TM_IdleInit
    /\ WR_IdleInit
    /\ Run_IdleInit
    /\ Ext_IdleInit
    /\ Cb_IdleInit /\ Task_IdleInit /\ Llm_IdleInit
    /\ \E preset \in {NoSession} \cup BackendIds,
          ctx \in {NoContext} \cup ContextIds,
          status \in {"RUNNING", "TIMED_OUT"} :
          sm = [pc |-> "ready",
                m |-> [cachedSessionId |-> preset, cachedContextId |-> ctx],
                sessions |-> [i \in BackendIds |->
                                 IF i = preset THEN status ELSE "ABSENT"],
                last |-> [op |-> "none"]]

SmGetOrCreateSession ==
    /\ sm.pc = "ready"
    /\ \E opts \in SmOptions, r \in SmResponses :
          /\ r.releaseOk
          /\ LET res == getOrCreateSession(sm.m, sm.sessions, opts, r) IN
             sm' = [sm EXCEPT !.m = res.m, !.sessions = res.sessions,
                              !.last = SmCall("getOrCreateSession", opts,
                                              NoSession, r, res)]
    /\ UNCHANGED <<tmVars, wrVars, runVars, extVars, progressCb, task, llm>>

SmCloseSession ==
    /\ sm.pc = "ready"
    /\ \E id \in BackendIds, r \in SmResponses :
          /\ r.retrieveOk /\ r.createOk /\ r.contextId = NoContext
          /\ LET res == closeSession(sm.m, sm.sessions, id, r) IN
             sm' = [sm EXCEPT !.m = res.m, !.sessions = res.sessions,
                              !.last = SmCall("closeSession",
                                              [contextId |-> NoContext,
                                               forceNew |-> FALSE],
                                              id, r, res)]
    /\ UNCHANGED <<tmVars, wrVars, runVars, extVars, progressCb, task, llm>>

\* Browserbase ends a running session on its own (timeout).
SmSessionTimesOut ==
    /\ sm.pc = "ready"
    /\ \E id \in BackendIds :
          /\ sm.sessions[id] = "RUNNING"
          /\ sm' = [sm EXCEPT !.sessions[id] = "TIMED_OUT"]
    /\ UNCHANGED <<tmVars, wrVars, runVars, extVars, progressCb, task, llm>>

SessionManagerNext == SmGetOrCreateSession \/ SmCloseSession \/ SmSessionTimesOut

SpecSessionManager == SessionManagerInit /\ [][SessionManagerNext]_vars

\* ---- SpecTask: one call of runStagehandGrammarlyTask
\* (stagehand/grammarlyTask.ts): the awaited browser operations of its main
\* flow in order, each of which resolves or rejects, and the catch block.
MainFlow ==
    <<"page.goto", "page.waitForLoadState", "observe new document",
      "act new document", "page.waitForLoadState editor", "act focus editor",
      "act select all", "type text", "observe AI detection",
      "act AI detection", "page.waitForLoadState networkidle", "extract">>

\* if (!currentUrl.includes("app.grammarly.com")) { goto; waitForLoadState }
FirstStep(atGrammarly) == IF atGrammarly THEN 3 ELSE 1

\* await page.waitForLoadState("networkidle").catch(() => {...}): the one
\* operation whose rejection the flow handles in place.
Tolerated(step) == MainFlow[step] = "page.waitForLoadState networkidle"

\* What a browser operation can reject with, and what extract can resolve with.
TaskErrors == {ErrorObj("e1"), StringVal("string error")}
FallbackErrors == {ErrorObj("e2"), ErrorObj("e1")}
ExtractResults ==
    {[aiDetectionPercent |-> 10, plagiarismPercent |-> 2, notes |-> "seen"],
     [aiDetectionPercent |-> NULL, plagiarismPercent |-> NULL, notes |-> "nothing visible"]}

\* return { aiDetectionPercent, plagiarismPercent, overallScore, notes }
TaskResult(x) ==
    [aiDetectionPercent |-> x.aiDetectionPercent,
     plagiarismPercent |-> x.plagiarismPercent,
     notes |-> [prefix |-> "", text |-> x.notes]]

\* notes: `Error during task, partial extraction: ${fallbackResult.notes}`
PartialResult(x) ==
    [aiDetectionPercent |-> x.aiDetectionPercent,
     plagiarismPercent |-> x.plagiarismPercent,
     notes |-> [prefix |-> "Error during task, partial extraction: ",
                text |-> x.notes]]

\* Mutant: the error of the fallback extraction is thrown.
OnFallbackFailure_ThrowsFallbackError(error, fallbackError) == Rejected(fallbackError)

\* catch { throw error; }
OnFallbackFailure(error, fallbackError) == Rejected(error)

NoError == Undefined

TaskInit ==
    /\ TM_IdleInit
    /\ WR_IdleInit
    /\ Run_IdleInit
    /\ Ext_IdleInit
    /\ Cb_IdleInit /\ Sm_IdleInit /\ Llm_IdleInit
    /\ \E hasPage \in BOOLEAN, atGrammarly \in BOOLEAN :
          task = [pc |-> "start", hasPage |-> hasPage, atGrammarly |-> atGrammarly,
                  step |-> 0, failedStep |-> 0, error |-> NoError,
                  tolerated |-> 0, extractCalls |-> 0, fallbackAttempts |-> 0,
                  fallbackError |-> NoError, outcome |-> NotSettled]

\* const page = stagehand.context.pages()[0]; if (!page) throw ...; then the
\* try block is entered.
TaskEnter ==
    /\ task.pc = "start"
    /\ task' = IF task.hasPage
               THEN [task EXCEPT !.pc = "main", !.step = FirstStep(task.atGrammarly)]
               ELSE [task EXCEPT
                        !.pc = "done",
                        !.outcome = Rejected(ErrorObj("No page available in Stagehand context"))]
    /\ UNCHANGED <<tmVars, wrVars, runVars, extVars, progressCb, sm, llm>>

\* The awaited operation of the current step resolved; the last one is
\* stagehand.extract, whose result is returned.
TaskStepResolves ==
    /\ task.pc = "main"
    /\ IF task.step < Len(MainFlow)
       THEN task' = [task EXCEPT !.step = @ + 1]
       ELSE \E x \in ExtractResults :
               task' = [task EXCEPT !.pc = "done", !.extractCalls = @ + 1,
                                    !.outcome = Fulfilled(TaskResult(x))]
    /\ UNCHANGED <<tmVars, wrVars, runVars, extVars, progressCb, sm, llm>>

\* The awaited operation of the current step rejected: the network-idle wait
\* logs and goes on, any other lands in the catch block.
TaskStepRejects ==
    /\ task.pc = "main"
    /\ \E e \in TaskErrors :
          task' = IF Tolerated(task.step)
                  THEN [task EXCEPT !.step = @ + 1, !.tolerated = @ + 1]
                  ELSE [task EXCEPT
                           !.pc = "fallback", !.failedStep = task.step,
                           !.error = e,
                           !.extractCalls = IF task.step = Len(MainFlow)
                                            THEN @ + 1 ELSE @]
    /\ UNCHANGED <<tmVars, wrVars, runVars, extVars, progressCb, sm, llm>>

\* const fallbackResult = await stagehand.extract(...) resolved.
TaskFallbackResolves ==
    /\ task.pc = "fallback"
    /\ \E x \in ExtractResults :
          task' = [task EXCEPT !.pc = "done", !.extractCalls = @ + 1,
                               !.fallbackAttempts = @ + 1,
                               !.outcome = Fulfilled(PartialResult(x))]
    /\ UNCHANGED <<tmVars, wrVars, runVars, extVars, progressCb, sm, llm>>

\* The fallback extraction rejected.
TaskFallbackRejects ==
    /\ task.pc = "fallback"
    /\ \E f \in FallbackErrors :
          task' = [task EXCEPT !.pc = "done", !.extractCalls = @ + 1,
                               !.fallbackAttempts = @ + 1,
                               !.fallbackError = f,
                               !.outcome = OnFallbackFailure(task.error, f)]
    /\ UNCHANGED <<tmVars, wrVars, runVars, extVars, progressCb, sm, llm>>

TaskNext ==
    \/ TaskEnter
    \/ TaskStepResolves
    \/ TaskStepRejects
    \/ TaskFallbackResolves
    \/ TaskFallbackRejects

SpecTask == TaskInit /\ [][TaskNext]_vars

\* ---- SpecLlm: the LLM collaborator calls of llm/claudeClient.ts
\* (rewriteTextWithClaude, analyzeTextWithClaude,
\* summarizeOptimizationWithClaude). Each awaits
\* Promise.race([generateObject/generateText(...), timeout promise]) inside
\* try / catch / finally. The orchestrator makes them one after the other.
MaxLlmCalls == 3

LlmFunctions == {"rewrite", "analysis", "optimization summary"}

\* What the model request can resolve and reject with.
ModelResults == {StringVal("text A"), StringVal("text B")}
ModelErrors == {ErrorObj("API rate limit exceeded"), StringVal("String error")}

\* new Error(`Claude ${fn} request exceeded timeout of ${timeoutMs}ms`)
TimeoutError(fn) == [kind |-> "Error", id |-> "request exceeded timeout", of |-> fn]

\* error instanceof Error ? error.message : String(error)
MessageOf(error) == error.id

\* new Error(`Claude ${fn} failed: ${...}`)
WrappedError(fn, error) ==
    [kind |-> "Error", id |-> "failed", of |-> fn, message |-> MessageOf(error),
     timedOut |-> error = TimeoutError(fn)]

\* Promise.race: the first of the two promises to settle decides.
Race(race, by) == IF race = "pending" THEN by ELSE race

\* Mutant: the finally block leaves the timer alone.
ClearTimeout_Never(timer) == timer

\* finally { if (timeoutId) clearTimeout(timeoutId); }
ClearTimeout(timer) == IF timer = "pending" THEN "cleared" ELSE timer

NewLlmCall(fn, n) ==
    [pc |-> "ready", fn |-> fn, calls |-> n, model |-> "not started",
     modelValue |-> Undefined, timer |-> "unset", race |-> "pending",
     settlements |-> 0, outcome |-> NotSettled]

LlmInit ==
    /\ TM_IdleInit
    /\ WR_IdleInit
    /\ Run_IdleInit
    /\ Ext_IdleInit
    /\ Cb_IdleInit /\ Sm_IdleInit /\ Task_IdleInit
    /\ \E fn \in LlmFunctions : llm = NewLlmCall(fn, 1)

\* The call up to its await: the model request is started and the timer set.
LlmStart ==
    /\ llm.pc = "ready"
    /\ llm' = [llm EXCEPT !.pc = "racing", !.model = "in flight",
                          !.timer = "pending"]
    /\ UNCHANGED <<tmVars, wrVars, runVars, extVars, progressCb, sm, task>>

\* generateObject / generateText throws before returning a promise: no timer
\* has been set, the catch block wraps the error.
LlmStartThrows ==
    /\ llm.pc = "ready"
    /\ \E e \in ModelErrors :
          llm' = [llm EXCEPT !.pc = "settled", !.model = "rejected",
                             !.modelValue = e, !.race = "model",
                             !.timer = ClearTimeout(llm.timer),
                             !.settlements = @ + 1,
                             !.outcome = Rejected(WrappedError(llm.fn, e))]
    /\ UNCHANGED <<tmVars, wrVars, runVars, extVars, progressCb, sm, task>>

\* The model request resolved: if the race is still open the function
\* returns its result and the finally block runs; if the call has timed out
\* already, nothing listens any more.
LlmModelResolves ==
    /\ llm.model = "in flight"
    /\ \E v \in ModelResults :
          llm' = IF llm.race = "pending"
                 THEN [llm EXCEPT !.pc = "settled", !.model = "resolved",
                                  !.modelValue = v, !.race = Race(@, "model"),
                                  !.timer = ClearTimeout(llm.timer),
                                  !.settlements = @ + 1,
                                  !.outcome = Fulfilled(v)]
                 ELSE [llm EXCEPT !.model = "resolved", !.modelValue = v,
                                  !.race = Race(@, "model")]
    /\ UNCHANGED <<tmVars, wrVars, runVars, extVars, progressCb, sm, task>>

\* The model request rejected.
LlmModelRejects ==
    /\ llm.model = "in flight"
    /\ \E e \in ModelErrors :
          llm' = IF llm.race = "pending"
                 THEN [llm EXCEPT !.pc = "settled", !.model = "rejected",
                                  !.modelValue = e, !.race = Race(@, "model"),
                                  !.timer = ClearTimeout(llm.timer),
                                  !.settlements = @ + 1,
                                  !.outcome = Rejected(WrappedError(llm.fn, e))]
                 ELSE [llm EXCEPT !.model = "rejected", !.modelValue = e,
                                  !.race = Race(@, "model")]
    /\ UNCHANGED <<tmVars, wrVars, runVars, extVars, progressCb, sm, task>>

\* The timer fired: its callback rejects the timeout promise.
LlmTimerFires ==
    /\ llm.timer = "pending"
    /\ llm' = IF llm.race = "pending"
              THEN [llm EXCEPT !.pc = "settled", !.race = Race(@, "timer"),
                               !.timer = ClearTimeout("fired"),
                               !.settlements = @ + 1,
                               !.outcome = Rejected(WrappedError(llm.fn,
                                                       TimeoutError(llm.fn)))]
              ELSE [llm EXCEPT !.timer = "fired", !.race = Race(@, "timer")]
    /\ UNCHANGED <<tmVars, wrVars, runVars, extVars, progressCb, sm, task>>

\* The orchestrator, having seen the call settle, makes its next
\* collaborator call (a request that outlived its call is abandoned).
LlmNextCall ==
    /\ llm.pc = "settled"
    /\ llm.calls < MaxLlmCalls
    /\ \E fn \in LlmFunctions : llm' = NewLlmCall(fn, llm.calls + 1)
    /\ UNCHANGED <<tmVars, wrVars, runVars, extVars, progressCb, sm, task>>

LlmNext ==
    \/ LlmStart
    \/ LlmStartThrows
    \/ LlmModelResolves
    \/ LlmModelRejects
    \/ LlmTimerFires
    \/ LlmNextCall

SpecLlm == LlmInit /\ [][LlmNext]_vars

-----------------------------------------------------------------------------
(* Claims about thresholdsMet (SpecThresholds) *)

BothAbsent(s) == s.aiDetectionPercent = NULL /\ s.plagiarismPercent = NULL
BothPresent(s) == s.aiDetectionPercent # NULL /\ s.plagiarismPercent # NULL

\* C1: thresholdsMet returns false whenever both scores are absent, for every
\* pair of ceilings in 0..100, (100,100) included.
C1_BothAbsentIsFalse ==
    (tm_pc = "done" /\ BothAbsent(scores)) => tm_result = FALSE

C1_Witness ==
    /\ tm_pc = "done"
    /\ BothAbsent(scores)
    /\ maxAiPercent = 100
    /\ maxPlagiarismPercent = 100
    /\ tm_result = FALSE

\* C2: with both scores present, thresholdsMet is true exactly when
\* aiScore <= maxAi and plagiarismScore <= maxPlagiarism (equality passes).
C2_BothPresentIff ==
    (tm_pc = "done" /\ BothPresent(scores)) =>
        (tm_result <=> (/\ scores.aiDetectionPercent <= maxAiPercent
                        /\ scores.plagiarismPercent <= maxPlagiarismPercent))

C2_Witness ==
    /\ tm_pc = "done"
    /\ BothPresent(scores)
    /\ scores.aiDetectionPercent = maxAiPercent
    /\ scores.plagiarismPercent = maxPlagiarismPercent
    /\ maxAiPercent # maxPlagiarismPercent
    /\ tm_result = TRUE

\* C3: with exactly one score absent, thresholdsMet equals (present score <=
\* its own ceiling), whatever the ceiling of the absent score is.
C3_OneAbsentDependsOnPresent ==
    /\ (tm_pc = "done" /\ scores.aiDetectionPercent = NULL
                       /\ scores.plagiarismPercent # NULL) =>
          /\ tm_result = (scores.plagiarismPercent <= maxPlagiarismPercent)
          /\ \A c \in Percents :
                thresholdsMet(scores, c, maxPlagiarismPercent) = tm_result
    /\ (tm_pc = "done" /\ scores.aiDetectionPercent # NULL
                       /\ scores.plagiarismPercent = NULL) =>
          /\ tm_result = (scores.aiDetectionPercent <= maxAiPercent)
          /\ \A c \in Percents :
                thresholdsMet(scores, maxAiPercent, c) = tm_result

C3_Witness ==
    /\ tm_pc = "done"
    /\ scores.aiDetectionPercent = NULL
    /\ scores.plagiarismPercent # NULL
    /\ scores.plagiarismPercent <= maxPlagiarismPercent
    /\ maxAiPercent = 0
    /\ tm_result = TRUE

-----------------------------------------------------------------------------
(* Claims about withRetry (SpecRetry) *)

Last(seq) == seq[Len(seq)]

\* C4: an operation that fails on its first k <= maxRetries calls and then
\* succeeds is invoked exactly k+1 times, withRetry returns that first
\* successful result, and the wait before retry j is backoffMs * 2^(j-1).
C4_RetriesThenSucceeds ==
    wr_pc = "returned" =>
        LET k == Len(fnLog) - 1 IN
        /\ k >= 0 /\ k <= options.maxRetries
        /\ \A j \in 1..k : fnLog[j].type = "rejected"
        /\ fnLog[k + 1].type = "fulfilled"
        /\ fnCalls = k + 1
        /\ wr_outcome = fnLog[k + 1]
        /\ Len(delays) = k
        /\ \A j \in 1..k : delays[j] = options.backoffMs * 2 ^ (j - 1)
        /\ \A j \in 1..(k - 1) : delays[j + 1] = 2 * delays[j]

C4_Witness ==
    /\ wr_pc = "returned"
    /\ options = [maxRetries |-> 3, backoffMs |-> 100]
    /\ fnCalls = 4
    /\ delays = <<100, 200, 400>>
    /\ wr_outcome = Settled("fulfilled", StringVal("success"))

\* C5: when all maxRetries+1 attempts fail, withRetry rejects with exactly the
\* value the last attempt threw, whatever that value is (Error, string, plain
\* object, null, undefined).
C5_RethrowsLastThrown ==
    (wr_pc = "thrown" /\ options.maxRetries >= 0) =>
        /\ fnCalls = options.maxRetries + 1
        /\ wr_outcome = Settled("rejected", Last(fnLog).value)

\* C6: withRetry with maxRetries < 0 rejects with a RangeError without
\* invoking the operation and without any backoff wait.
C6_NegativeMaxRetries ==
    (wr_pc # "idle" /\ options.maxRetries < 0) =>
        /\ wr_pc = "thrown"
        /\ wr_outcome.type = "rejected"
        /\ wr_outcome.value.kind = "RangeError"
        /\ fnCalls = 0
        /\ fnLog = <<>>
        /\ delays = <<>>

C6_Witness ==
    /\ wr_pc = "thrown"
    /\ options.maxRetries = 0 - 1
    /\ wr_outcome.value.kind = "RangeError"
    /\ fnCalls = 0

-----------------------------------------------------------------------------
(* Claims about runGrammarlyOptimization (Spec) *)

Settles(type) == run.pc = "done" /\ run.outcome.type = type

ScoresOf(entry) == Scores(entry.ai_detection_percent, entry.plagiarism_percent)

EntryMeets(entry) ==
    thresholdsMet(ScoresOf(entry), input.max_ai_percent, input.max_plagiarism_percent)

\* C7: if a scoring call (baseline or a loop iteration) fails on every attempt
\* of its retry budget, closeSession is still invoked with the id createSession
\* returned, and the caller observes a rejection carrying the scoring error
\* itself (the value the last scoring attempt rejected with), never a cleanup
\* error and never a result.
C7_ScoringFailureClosesAndPropagates ==
    (run.pc = "done" /\ obs.thrownBy \in {"initialScore", "rescore"}) =>
        /\ obs.created # NoSession
        /\ obs.closeCalls = <<obs.created>>
        /\ run.outcome = Settled("rejected", Last(fnLog).value)

\* C8: a failure of closeSession in the cleanup step never alters the outcome:
\* the run settles with the completion of its try block, a result built from
\* the state the run reached or the error that ended it, never the teardown
\* error.
C8_CloseFailureKeepsOutcome ==
    (run.pc = "done" /\ obs.closeFailed) =>
        /\ run.outcome = run.pending
        /\ run.outcome.type \in {"fulfilled", "rejected"}
        /\ run.outcome.type = "rejected" =>
              /\ run.outcome.value # ErrorObj("closeSession")
              /\ obs.thrownBy # "none"
        /\ run.outcome.type = "fulfilled" =>
              /\ obs.thrownBy = "none"
              /\ run.outcome.value.final_text = run.currentText
              /\ run.outcome.value.history = run.history
              /\ run.outcome.value.thresholds_met = run.reachedThresholds
              /\ run.outcome.value.ai_detection_percent
                    = Last(run.history).ai_detection_percent
              /\ run.outcome.value.plagiarism_percent
                    = Last(run.history).plagiarism_percent

C8_Witness ==
    /\ Settles("fulfilled")
    /\ obs.closeFailed
    /\ input.mode = "optimize"
    /\ run.outcome.value.thresholds_met
    /\ run.outcome.value.iterations_used = 2

\* C9: closeSession is invoked exactly once, with the id createSession
\* returned, if createSession succeeded (whether the run then returns or
\* fails), and not at all if provider construction or session creation failed
\* terminally, in which case the creation error (the value the last creation
\* attempt rejected with) is what the run rejects with.
C9_CloseExactlyOnceOrCreationError ==
    run.pc = "done" =>
        /\ obs.created # NoSession => obs.closeCalls = <<obs.created>>
        /\ obs.thrownBy \in {"createProvider", "createSession"} =>
              /\ obs.created = NoSession
              /\ obs.closeCalls = <<>>
              /\ run.outcome = Settled("rejected", Last(fnLog).value)

\* The part of C9 about the number of closeSession calls alone.
CloseSessionCallCount ==
    /\ Len(obs.closeCalls) <= 1
    /\ run.pc = "done" =>
          obs.closeCalls = (IF obs.created # NoSession THEN <<obs.created>> ELSE <<>>)
    /\ run.pc # "done" => obs.closeCalls = <<>>

\* C10: in optimize mode the loop stops at the first iteration k whose
\* rescoring meets the thresholds: from then on the run is past the loop with
\* exactly k rewrite calls and k+1 scoring passes made, and a returned result
\* has iterations_used = k, thresholds_met = true and final_text equal to the
\* text rewrite pass k returned.
C10_StopsAtFirstMeetingIteration ==
    /\ (input.mode = "optimize" /\ run.reachedThresholds) =>
          LET k == run.iterationsUsed IN
          /\ run.pc \in {"p_summary", "summarize", "p_complete", "finally", "done"}
          /\ 1 <= k /\ k <= input.max_iterations
          /\ Len(run.history) = k + 1
          /\ EntryMeets(run.history[k + 1])
          /\ \A j \in 2..k : ~EntryMeets(run.history[j])
          /\ obs.rewriteCalls = k
          /\ obs.scorePasses = k + 1
          /\ run.currentText = obs.rewriteOut
    /\ (input.mode = "optimize" /\ Settles("fulfilled")
            /\ run.outcome.value.thresholds_met) =>
          /\ run.reachedThresholds
          /\ run.outcome.value.iterations_used = run.iterationsUsed
          /\ run.outcome.value.final_text = obs.rewriteOut
          /\ run.outcome.value.history = run.history

C10_Witness ==
    /\ Settles("fulfilled")
    /\ input.mode = "optimize"
    /\ input.max_iterations = 3
    /\ run.outcome.value.thresholds_met
    /\ run.outcome.value.iterations_used = 2
    /\ obs.rewriteCalls = 2
    /\ run.outcome.value.final_text = 1
    /\ Len(run.outcome.value.history) = 3

\* C11: in optimize mode, when no rescoring pass meets the thresholds, the
\* loop runs exactly max_iterations passes (max_iterations rewrite calls), and
\* the run, nothing having failed, returns a fully populated result with
\* iterations_used = max_iterations and thresholds_met = false.
C11_NeverMetRunsAllIterations ==
    /\ (input.mode = "optimize" /\ ~run.reachedThresholds
            /\ run.pc \in {"p_summary", "summarize", "p_complete"}) =>
          /\ obs.rewriteCalls = input.max_iterations
          /\ run.iterationsUsed = input.max_iterations
          /\ Len(run.history) = input.max_iterations + 1
          /\ \A j \in 2..Len(run.history) : ~EntryMeets(run.history[j])
    /\ (input.mode = "optimize" /\ run.pc = "done" /\ obs.thrownBy = "none") =>
          run.outcome.type = "fulfilled"
    /\ (input.mode = "optimize" /\ Settles("fulfilled")
            /\ ~run.outcome.value.thresholds_met) =>
          LET result == run.outcome.value IN
          /\ obs.rewriteCalls = input.max_iterations
          /\ result.iterations_used = input.max_iterations
          /\ Len(result.history) = input.max_iterations + 1
          /\ \A j \in 2..Len(result.history) : ~EntryMeets(result.history[j])
          /\ result.final_text = obs.rewriteOut
          /\ ScoresOf(Last(result.history))
                = Scores(result.ai_detection_percent, result.plagiarism_percent)
          /\ result.notes = "summary"
          /\ obs.summarizeCalls = 1

C11_Witness ==
    /\ Settles("fulfilled")
    /\ input.mode = "optimize"
    /\ input.max_iterations = 3
    /\ ~run.outcome.value.thresholds_met
    /\ run.outcome.value.iterations_used = 3
    /\ obs.rewriteCalls = 3
    /\ Len(run.outcome.value.history) = 4
    /\ run.outcome.value.ai_detection_percent = 75

\* C12: in score_only mode, whatever the baseline scores are, the rewrite
\* collaborator is never invoked at any point of the run, and a returned
\* result has iterations_used = 0 and final_text equal to the input text.
C12_ScoreOnlyNeverRewrites ==
    input.mode = "score_only" =>
        /\ obs.rewriteCalls = 0
        /\ run.pc # "rewrite"
        /\ run.currentText = input.text
        /\ Settles("fulfilled") =>
              /\ run.outcome.value.iterations_used = 0
              /\ run.outcome.value.final_text = input.text

C12_Witness ==
    /\ Settles("fulfilled")
    /\ input.mode = "score_only"
    /\ run.outcome.value.ai_detection_percent = 75
    /\ ~run.outcome.value.thresholds_met
    /\ run.outcome.value.iterations_used = 0
    /\ run.outcome.value.final_text = InputText
    /\ obs.rewriteCalls = 0

\* C13: in analyze mode the analysis collaborator is invoked exactly once,
\* with the baseline scores, the rewrite collaborator is never invoked, and
\* the run returns iterations_used = 0, final_text equal to the input text and
\* notes equal to what the analysis collaborator returned.
C13_AnalyzeOnceNoRewrite ==
    input.mode = "analyze" =>
        /\ obs.rewriteCalls = 0
        /\ run.pc # "rewrite"
        /\ obs.analyzeCalls <= 1
        /\ obs.analyzeCalls = 1 =>
              /\ Len(run.history) = 1
              /\ run.history[1].iteration = 0
              /\ obs.analyzeArgs = [text |-> input.text,
                                    scores |-> ScoresOf(run.history[1])]
        /\ Settles("fulfilled") =>
              /\ obs.analyzeCalls = 1
              /\ run.outcome.value.iterations_used = 0
              /\ run.outcome.value.final_text = input.text
              /\ run.outcome.value.notes = obs.analyzeOut
              /\ obs.analyzeOut \in AnalysisTexts

C13_Witness ==
    /\ Settles("fulfilled")
    /\ input.mode = "analyze"
    /\ obs.analyzeCalls = 1
    /\ obs.analyzeArgs.scores = Scores(40, 40)
    /\ run.outcome.value.notes = "analysis B"
    /\ run.outcome.value.iterations_used = 0
    /\ obs.rewriteCalls = 0

\* C14: in every returned result 0 <= iterations_used <= max_iterations, and
\* iterations_used is the number of rewrite passes executed in the run, which
\* is the history length minus one; it is 0 in score_only and analyze modes.
C14_IterationsUsedCountsPasses ==
    Settles("fulfilled") =>
        LET result == run.outcome.value IN
        /\ 0 <= result.iterations_used
        /\ result.iterations_used <= input.max_iterations
        /\ result.iterations_used = obs.rewriteCalls
        /\ result.iterations_used = Len(result.history) - 1
        /\ input.mode \in {"score_only", "analyze"} => result.iterations_used = 0

C14_Witness ==
    /\ Settles("fulfilled")
    /\ input.mode = "optimize"
    /\ input.max_iterations = 3
    /\ run.outcome.value.iterations_used = 1
    /\ obs.rewriteCalls = 1
    /\ Len(run.outcome.value.history) = 2

IsPrefix(a, b) == Len(a) <= Len(b) /\ SubSeq(b, 1, Len(a)) = a

\* The entry at position j (counted from 1) carries iteration index j - 1.
NumberedInOrder(h) == \A j \in 1..Len(h) : h[j].iteration = j - 1

\* C15: the history of a returned result is non-empty, starts with the
\* baseline entry (iteration 0) and numbers its entries 0, 1, 2, ... in order;
\* during the run the history changes only by appending, so each state of it
\* is a prefix of every later one.
C15_HistoryAppendOnly ==
    /\ [](/\ NumberedInOrder(run.history)
          /\ Settles("fulfilled") =>
                /\ run.outcome.value.history = run.history
                /\ Len(run.outcome.value.history) >= 1
                /\ run.outcome.value.history[1].iteration = 0)
    /\ [][/\ IsPrefix(run.history, run.history')
          /\ Len(run.history') <= Len(run.history) + 1]_vars

C15_Witness ==
    /\ Settles("fulfilled")
    /\ Len(run.outcome.value.history) = 4
    /\ run.outcome.value.history[1].iteration = 0
    /\ run.outcome.value.history[4].iteration = 3
    /\ run.outcome.value.history[1].ai_detection_percent = NULL
    /\ run.outcome.value.history[3].ai_detection_percent = 75

\* C16: in every mode, if both scores of the final ScorePair (the last one
\* observed, the one the result reports) are absent, the returned
\* thresholds_met is false.
C16_FinalPairAbsentNotMet ==
    Settles("fulfilled") =>
        LET result == run.outcome.value IN
        /\ Scores(result.ai_detection_percent, result.plagiarism_percent)
              = ScoresOf(Last(result.history))
        /\ BothAbsent(ScoresOf(Last(result.history))) => ~result.thresholds_met

C16_Witness ==
    /\ Settles("fulfilled")
    /\ input.mode = "optimize"
    /\ run.outcome.value.iterations_used = 2
    /\ run.outcome.value.history[1].ai_detection_percent = 75
    /\ run.outcome.value.ai_detection_percent = NULL
    /\ run.outcome.value.plagiarism_percent = NULL
    /\ ~run.outcome.value.thresholds_met

\* C17: a rejection of the progress callback at a checkpoint does not abort
\* the run: the run goes on from the checkpoint exactly as if the callback
\* had resolved.
C17_ProgressFailureDoesNotAbort ==
    [][(obs.thrownBy = "none" /\ obs'.thrownBy = "onProgress") =>
          run' = AfterProgress(run)]_vars

\* C19: rewrite pass i is given the current text and the most recent
\* ScorePair: the input text and the baseline scores for i = 1, the text
\* rewrite pass i-1 returned and the scores of scoring pass i-1 for i >= 2;
\* scoring pass i is run on the text rewrite pass i returned, tagged with
\* iteration number i.
C19_LoopFeedsForward ==
    [][/\ run.pc = "rewrite" =>
             LET i == obs.rewriteCalls + 1 IN
             /\ obs'.rewriteCalls = i
             /\ Len(run.history) = i
             /\ Last(run.history).iteration = i - 1
             /\ obs'.rewriteArgs =
                   [originalText |-> IF i = 1 THEN input.text ELSE obs.rewriteOut,
                    lastScores |-> ScoresOf(Last(run.history))]
             /\ i >= 2 => obs.scoreArgs.iteration = i - 1
       /\ (run.pc = "rescore" /\ wr_pc = "call") =>
             LET i == obs.rewriteCalls IN
             /\ i >= 1
             /\ obs.scorePasses = i + 1
             /\ obs'.scoreArgs = [sessionId |-> obs.created, text |-> obs.rewriteOut,
                                  iteration |-> i]]_vars

C19_Witness ==
    /\ run.pc = "p_rewrite"
    /\ run.iteration = 3
    /\ obs.rewriteCalls = 2
    /\ obs.rewriteArgs = [originalText |-> 1, lastScores |-> Scores(40, 40)]
    /\ ScoresOf(run.history[1]) = Scores(75, 25)
    /\ obs.rewriteOut = 0
    /\ obs.scoreArgs.iteration = 2
    /\ obs.scoreArgs.text = 0

\* C20: final_text of a returned result is the caller's input text, unless
\* the mode is optimize and at least one rewrite pass ran, in which case it is
\* the text the last executed rewrite pass returned; the caller's input is
\* never modified by the run.
C20_FinalTextAndInputFrame ==
    /\ [](Settles("fulfilled") =>
             run.outcome.value.final_text =
                 IF input.mode = "optimize" /\ obs.rewriteCalls >= 1
                 THEN obs.rewriteOut
                 ELSE input.text)
    /\ [](input.text = InputText)
    /\ [][input' = input]_vars

C20_Witness ==
    /\ Settles("fulfilled")
    /\ input.mode = "optimize"
    /\ obs.rewriteCalls = 2
    /\ obs.rewriteArgs.originalText = 0
    /\ obs.rewriteOut = 1
    /\ run.outcome.value.final_text = 1
    /\ input.text = InputText

\* The optimize loop has ended: by a pass that met the thresholds, or by the cap.
LoopCompleted ==
    /\ input.mode = "optimize"
    /\ Len(run.history) >= 2
    /\ \/ EntryMeets(Last(run.history))
       \/ Len(run.history) = input.max_iterations + 1

\* What C21 says of the calls that are made: never in score_only or analyze
\* mode, at most once, after the last scoring pass, with the full history and
\* the values the result reports, its return value being the result's notes.
SummaryCallDiscipline ==
    /\ input.mode \in {"score_only", "analyze"} => obs.summarizeCalls = 0
    /\ obs.summarizeCalls <= 1
    /\ obs.summarizeCalls = 1 =>
          /\ LoopCompleted
          /\ obs.scorePasses = Len(run.history)
          /\ obs.summarizeArgs =
                [iterationsUsed |-> run.iterationsUsed,
                 thresholdsMet |-> run.reachedThresholds,
                 history |-> run.history, finalText |-> run.currentText]
          /\ Len(obs.summarizeArgs.history) = 1 + obs.summarizeArgs.iterationsUsed
    /\ (input.mode = "optimize" /\ Settles("fulfilled")) =>
          /\ obs.summarizeCalls = 1
          /\ run.outcome.value.notes = "summary"
          /\ obs.summarizeArgs.iterationsUsed = run.outcome.value.iterations_used
          /\ obs.summarizeArgs.thresholdsMet = run.outcome.value.thresholds_met
          /\ obs.summarizeArgs.history = run.outcome.value.history

\* C21: the summary collaborator is invoked exactly once in every optimize
\* run that completes its loop (by success or by cap exhaustion), after the
\* last scoring pass, with the full history (1 + iterations_used records) and
\* the iterations_used and thresholds_met the result reports; never in
\* score_only or analyze mode; its return value becomes the result's notes.
C21_SummaryOnceAfterLoop ==
    /\ SummaryCallDiscipline
    /\ (run.pc = "done" /\ LoopCompleted) => obs.summarizeCalls = 1

\* C22: a failure of the rewrite, analyze or summarize collaborator is not
\* retried (the collaborator was invoked once for that step), the run rejects
\* with the very error the collaborator raised, no result is produced, and
\* closeSession is still invoked.
C22_CollaboratorFailureNotRetried ==
    obs.thrownBy \in {"analyze", "rewrite", "summarize"} =>
        /\ run.pc \in {"finally", "done"}
        /\ run.pending = Settled("rejected", ErrorObj(obs.thrownBy))
        /\ obs.thrownBy = "analyze" => obs.analyzeCalls = 1
        /\ obs.thrownBy = "summarize" => obs.summarizeCalls = 1
        /\ obs.thrownBy = "rewrite" =>
              /\ obs.rewriteCalls = run.iteration
              /\ obs.rewriteCalls = Len(run.history)
              /\ obs.scorePasses = Len(run.history)
        /\ run.pc = "done" =>
              /\ run.outcome = Settled("rejected", ErrorObj(obs.thrownBy))
              /\ obs.created # NoSession
              /\ obs.closeCalls = <<obs.created>>

C22_Witness ==
    /\ run.pc = "done"
    /\ obs.thrownBy = "rewrite"
    /\ obs.rewriteCalls = 2
    /\ obs.closeFailed
    /\ run.outcome = Settled("rejected", ErrorObj("rewrite"))
    /\ Len(obs.closeCalls) = 1

-----------------------------------------------------------------------------
(* Claims about the progress checkpoints (SpecProgress) *)

NonDecreasing(seq) == \A j \in 1..(Len(seq) - 1) : seq[j] <= seq[j + 1]

Clamp(lo, hi, x) == IF x < lo THEN lo ELSE IF x > hi THEN hi ELSE x

\* The percentages of a run with cap n whose loop made k passes, each
\* multiplied by 2n: 5, 10, 100 (score_only); 5, 10, 50, 100 (analyze);
\* 5, 10, 15, then 15 + 70(i-1)/n and 15 + 70(i-0.5)/n clamped to 15..85 for
\* each pass i, then 92, 100 (optimize).
LoopPercentages(n, k) ==
    IF k = 0 THEN <<>>
    ELSE [j \in 1..(2 * k) |->
            LET i == (j + 1) \div 2 IN
            IF j % 2 = 1
            THEN Clamp(30 * n, 170 * n, 30 * n + 140 * (i - 1))
            ELSE Clamp(30 * n, 170 * n, 30 * n + 140 * (i - 1) + 70)]

ExpectedPercentages(mode, n, k) ==
    CASE mode = "score_only" -> <<10 * n, 20 * n, 200 * n>>
      [] mode = "analyze"    -> <<10 * n, 20 * n, 100 * n, 200 * n>>
      [] OTHER -> <<10 * n, 20 * n, 30 * n>> \o LoopPercentages(n, k)
                    \o <<184 * n, 200 * n>>

\* C18: within one run the percentages handed to the progress callback never
\* decrease, in every mode and for every max_iterations in 1..20, and they are
\* the values 5, 10, 100 / 5, 10, 50, 100 / 5, 10, 15, the two clamped values
\* of each pass, 92, 100.
C18_ProgressNonDecreasing ==
    /\ NonDecreasing(obs.progress)
    /\ \A j \in 1..Len(obs.progress) :
          obs.progress[j] >= 0 /\ obs.progress[j] <= 200 * input.max_iterations
    /\ IsPrefix(obs.progress,
                ExpectedPercentages(input.mode, input.max_iterations,
                                    IF run.reachedThresholds THEN run.iterationsUsed
                                    ELSE input.max_iterations))
    /\ (input.onProgress /\ Settles("fulfilled")) =>
          obs.progress = ExpectedPercentages(input.mode, input.max_iterations,
                                             run.outcome.value.iterations_used)

C18_Witness ==
    /\ Settles("fulfilled")
    /\ input.mode = "optimize"
    /\ input.max_iterations = SchemaMaxIterations
    /\ run.outcome.value.iterations_used = SchemaMaxIterations
    /\ Len(obs.progress) = 2 * SchemaMaxIterations + 5
    /\ obs.progress[2 * SchemaMaxIterations + 3] = 3330
    /\ obs.progress[2 * SchemaMaxIterations + 4] = 3680

-----------------------------------------------------------------------------
(* Claims about the browser providers (SpecInvocations, SpecProviders) *)

\* C23: two concurrent invocations never hold the same session id at the
\* same time, and no invocation's cleanup has closed a session that another
\* invocation still holds for scoring, whatever the provider configuration.
C23_SessionsNeverShared ==
    \A i, j \in Invocations :
        (i # j /\ client[i].phase = "holding") =>
            /\ client[j].phase = "holding" => client[j].held # client[i].held
            /\ client[i].held \notin client[j].closed

\* A session of the cloud that some invocation still holds has been released
\* by the other invocation's closeSession.
ReleasedUnderfoot ==
    \E i, j \in Invocations :
        /\ i # j
        /\ client[i].phase = "holding"
        /\ client[j].phase = "closed"
        /\ client[j].last.id = client[i].held
        /\ backend[KindOf(i)][client[i].held] = "RELEASED"

\* Under the Browser Use provider every createSession creates a session, so
\* the invocations' sessions are distinct.
OwnSessionsUnderBrowserUse ==
    (\A i \in Invocations : KindOf(i) = "browser-use") => C23_SessionsNeverShared

\* C24: closeSession of either provider never raises to its caller: for an
\* id the provider created, an id it never created and an id it has already
\* closed, and whether or not the cloud refuses the close / release requests.
C24_CloseSessionNeverRaises ==
    \A i \in {Stagehand, BrowserUse} :
        client[i].last.op = "closeSession" =>
            client[i].last.outcome = Fulfilled(Undefined)

\* Both providers have been asked to close an id they never created, and
\* have now closed again an id they created and already closed, the cloud
\* refusing the requests of this last call.
C24_Witness ==
    \A i \in {Stagehand, BrowserUse} :
        /\ client[i].last.op = "closeSession"
        /\ client[i].last.known
        /\ client[i].last.closedBefore
        /\ client[i].last.refused
        /\ client[i].closed \ client[i].created # {}
        /\ client[i].last.outcome.type = "fulfilled"

\* C25: when StagehandProvider.createSession fails after the session manager
\* handed it a Browserbase session (Stagehand initialisation failed), that
\* session has been released, no Stagehand instance is registered for it and
\* the caller receives the initialisation error.
InitFailed ==
    /\ client[Stagehand].last.op = "createSession"
    /\ client[Stagehand].last.outcome.type = "rejected"
    /\ client[Stagehand].last.obtained # NoSession

C25_FailedCreateReleasesSession ==
    InitFailed =>
        /\ backend["stagehand"][client[Stagehand].last.obtained] # "RUNNING"
        /\ client[Stagehand].last.obtained \notin prov[Stagehand].stagehandInstances
        /\ client[Stagehand].last.outcome = Rejected(ErrorObj("stagehand.init"))

\* What holds of every failed initialisation: the caller receives the
\* initialisation error, and the session is left running only when the cloud
\* refused a request.
InitFailureReportsOriginalError ==
    InitFailed =>
        /\ client[Stagehand].last.outcome = Rejected(ErrorObj("stagehand.init"))
        /\ backend["stagehand"][client[Stagehand].last.obtained] = "RUNNING"
              => client[Stagehand].last.refused

\* C26: given the same calls and equivalent answers of their clouds, the two
\* providers both succeed or both fail at every call, calls of scoreText on
\* an id the provider never created or has already closed included.
C26_BackendsIndistinguishable ==
    client[Stagehand].last.outcome.type = client[BrowserUse].last.outcome.type

\* scoreText on a session the provider created and has not closed.
ScoredOwnOpenSession(i) ==
    /\ client[i].last.op = "scoreText"
    /\ client[i].last.known
    /\ ~client[i].last.closedBefore

\* The two providers differ at a scoreText call on an id of a running session
\* of the cloud that the provider did not create or has closed.
DistinguishedByForeignId ==
    /\ client[Stagehand].last.op = "scoreText"
    /\ ~ScoredOwnOpenSession(Stagehand)
    /\ client[Stagehand].last.outcome = Rejected(ErrorObj("No Stagehand instance found"))
    /\ client[BrowserUse].last.outcome.type = "fulfilled"

-----------------------------------------------------------------------------
(* Claims about the text scoreText submits (SpecSubmit) *)

Submitted == sub.pc \in {"stagehand", "browser-use"}

\* Text the Browser Use sanitiser leaves alone.
Plain(t) == \A i \in 1..Len(t) : t[i].kind = "prose"

\* C27: for a text parameter of any length the content each backend submits
\* to the scoring surface equals the text parameter.
C27_SubmitsFullText == Submitted => sub.submitted.content = sub.text

\* C27 as the code has it: a text of at most 8000 characters (on Browser Use:
\* without markers and directive lines) is submitted as it is; of a longer
\* text only the first 8000 characters are submitted (on Browser Use: of the
\* sanitised text, followed by the truncation placeholder line).
C27_SubmitsTextUpToLimit ==
    /\ (sub.pc = "stagehand" /\ length(sub.text) <= 8000)
          => sub.submitted.content = sub.text
    /\ (sub.pc = "stagehand" /\ length(sub.text) > 8000)
          => /\ sub.submitted.content = slice(sub.text, 8000)
             /\ length(sub.submitted.content) = 8000
             /\ sub.submitted.content # sub.text
    /\ (sub.pc = "browser-use" /\ length(sub.text) <= 8000 /\ Plain(sub.text))
          => sub.submitted.content = sub.text
    /\ (sub.pc = "browser-use" /\ length(sub.text) > 8000 /\ Plain(sub.text))
          => /\ sub.submitted.content
                    = Append(slice(sub.text, 8000), TRUNCATION_PLACEHOLDER)
             /\ length(sub.submitted.content) = 8000 + 1 + 27
    /\ (sub.pc = "browser-use" /\ ~Plain(sub.text))
          => /\ sub.submitted.content # sub.text
             /\ length(sub.submitted.content) <= 8000 + 1 + 27
             /\ length(sub.submitted.content) <= 8000 =>
                \A i \in 1..Len(sub.text) :
                   /\ sub.text[i].kind = "directive"
                         => sub.submitted.content[i] = REMOVED_DIRECTIVE_PLACEHOLDER
                   /\ sub.text[i].kind = "marker"
                         => sub.submitted.content[i].len = 0

\* A text of two lines, 8000 and 600 characters, has been cut by Stagehand
\* to its first line.
C27_Witness ==
    /\ sub.pc = "stagehand"
    /\ Len(sub.text) = 2
    /\ length(sub.text) = 8601
    /\ sub.submitted.via = "fill"
    /\ Len(sub.submitted.content) = 1
    /\ length(sub.submitted.content) = 8000

-----------------------------------------------------------------------------
(* Claims about the run's resources and order (Spec, SpecLive) *)

\* The most invocations one withRetry of a call site makes.
AttemptLimit(site) ==
    CASE site = "createProvider" -> 3
      [] site = "createSession" -> 4
      [] site \in {"initialScore", "rescore"} -> 3

\* C28: in one run the provider factory is invoked at most 3 times,
\* createSession at most 4 times, the scoring operation at most 3 times per
\* scoring pass, each pass starting with a fresh budget, there are at most
\* 1 + max_iterations scoring passes, and the rewrite collaborator is invoked
\* at most max_iterations times.
RetryBudgets ==
    /\ run.pc \in RetrySites =>
          fnCalls + (IF wr_pc = "call" THEN 1 ELSE 0) <= AttemptLimit(run.pc)
    /\ obs.thrownBy \in RetrySites => fnCalls <= AttemptLimit(obs.thrownBy)
    /\ obs.scorePasses <= 1 + input.max_iterations
    /\ obs.rewriteCalls <= input.max_iterations

FreshBudgetPerSite ==
    /\ obs'.scorePasses # obs.scorePasses =>
          /\ obs'.scorePasses = obs.scorePasses + 1
          /\ run'.pc \in {"initialScore", "rescore"}
          /\ fnCalls' = 0 /\ attempt' = 0
    /\ (run'.pc = "createProvider" /\ run.pc # "createProvider") =>
          /\ run.pc = "p_session"
          /\ fnCalls' = 0
    /\ (run'.pc = "createSession" /\ run.pc # "createSession") =>
          /\ run.pc = "createProvider"
          /\ fnCalls' = 0

C28_NoUnboundedRetry == [](RetryBudgets) /\ [][FreshBudgetPerSite]_vars

\* The last scoring pass of a run with two iterations is about to make its
\* third attempt.
C28_Witness ==
    /\ run.pc = "rescore" /\ wr_pc = "call" /\ fnCalls = 2
    /\ input.max_iterations = 2
    /\ obs.scorePasses = 3
    /\ obs.rewriteCalls = 2

\* C29: when every external call and backoff delay completes, the invocation
\* settles (fulfilled or rejected); it settles from the finally block, with
\* the session closed if one was acquired, wherever the try block was left.
\* (A rejection by the progress callback that announces the acquisition
\* comes before the try block: nothing has been acquired yet.)
HasSettled == run.pc = "done" /\ run.outcome.type \in {"fulfilled", "rejected"}

CleanedUp ==
    /\ obs.created # NoSession => obs.closeCalls = <<obs.created>>
    /\ obs.created = NoSession => obs.closeCalls = <<>>

SettlesThroughFinally ==
    (run'.pc = "done" /\ run.pc # "done") =>
        /\ run.pc = "finally" \/ (run.pc = "p_session" /\ obs.created = NoSession)
        /\ run.pc = "finally" => run'.outcome = run.pending
        /\ CleanedUp'

C29_SettlesAfterCleanup ==
    /\ <>HasSettled
    /\ [](run.pc = "done" => HasSettled /\ CleanedUp)
    /\ [][SettlesThroughFinally]_vars

\* A run whose third scoring pass exhausted its retries has settled with
\* that error after its session was closed.
C29_Witness ==
    /\ HasSettled
    /\ obs.thrownBy = "rescore"
    /\ obs.scorePasses = 3
    /\ run.outcome.type = "rejected"
    /\ obs.created # NoSession
    /\ obs.closeCalls = <<obs.created>>

\* C30: within one invocation the external calls are made one at a time and
\* in order: provider construction, createSession, baseline scoreText, then
\* rewrite i and scoreText i in turn, then summarize, closeSession last; no
\* scoreText before createSession succeeded or after closeSession, and no
\* retry attempt before the previous attempt failed and its backoff elapsed.
ScoringSite == run.pc \in {"initialScore", "rescore"}

CallOrder ==
    \* withRetry runs only at a retried call site: no other call is in flight
    \* while an attempt or a backoff is
    /\ wr_pc \in {"call", "wait"} => run.pc \in RetrySites
    /\ run.pc \in RetrySites => wr_pc \in {"call", "wait"}
    \* construction, then createSession, then scoring
    /\ run.pc = "createProvider" => ~run.provider /\ obs.created = NoSession
    /\ run.pc = "createSession" => run.provider /\ obs.created = NoSession
    /\ (ScoringSite \/ obs.scorePasses > 0) =>
          /\ run.provider
          /\ obs.created # NoSession /\ run.sessionId = obs.created
    /\ (run.pc = "initialScore") => obs.scorePasses = 1 /\ obs.rewriteCalls = 0
    \* rewrite i follows scoring pass i - 1 and precedes scoring pass i
    /\ run.pc = "rewrite" =>
          obs.scorePasses = run.iteration /\ obs.rewriteCalls = run.iteration - 1
    /\ run.pc = "rescore" =>
          obs.scorePasses = run.iteration + 1 /\ obs.rewriteCalls = run.iteration
    /\ obs.rewriteCalls <= obs.scorePasses
    /\ obs.scorePasses <= obs.rewriteCalls + 1
    /\ (obs.rewriteCalls > 0 \/ obs.analyzeCalls > 0 \/ obs.summarizeCalls > 0)
          => obs.scorePasses > 0
    \* a retry attempt starts only after every earlier attempt failed and
    \* was followed by its backoff
    /\ (run.pc \in RetrySites /\ wr_pc = "call") =>
          /\ Len(fnLog) = fnCalls /\ Len(delays) = fnCalls /\ attempt = fnCalls
          /\ \A k \in 1..Len(fnLog) : fnLog[k].type = "rejected"
    /\ (run.pc \in RetrySites /\ wr_pc = "wait") =>
          /\ Len(fnLog) = fnCalls /\ Len(delays) = fnCalls /\ attempt = fnCalls - 1
          /\ fnLog[fnCalls].type = "rejected"
    \* closeSession is the last call
    /\ obs.closeCalls # <<>> => run.pc = "done"

CallOrderStep ==
    \* nothing is called after summarize but closeSession, nothing after
    \* closeSession
    /\ obs.summarizeCalls > 0 =>
          /\ obs'.rewriteCalls = obs.rewriteCalls
          /\ obs'.scorePasses = obs.scorePasses
          /\ obs'.summarizeCalls = obs.summarizeCalls
    /\ obs.closeCalls # <<>> => obs' = obs
    \* one call at a time: a step settles or starts at most one of them
    /\ (obs'.rewriteCalls - obs.rewriteCalls) + (obs'.scorePasses - obs.scorePasses)
          + (obs'.analyzeCalls - obs.analyzeCalls)
          + (obs'.summarizeCalls - obs.summarizeCalls)
          + (Len(obs'.closeCalls) - Len(obs.closeCalls)) \in {0, 1}

C30_CallsStrictlySequential == [](CallOrder) /\ [][CallOrderStep]_vars

\* The second scoring pass of the loop is making its second attempt, after
\* the first failed and its backoff elapsed.
C30_Witness ==
    /\ run.pc = "rescore" /\ wr_pc = "call"
    /\ fnCalls = 1 /\ delays = <<2000>>
    /\ fnLog[1].type = "rejected"
    /\ obs.rewriteCalls = 2 /\ obs.scorePasses = 3
    /\ obs.created # NoSession /\ obs.closeCalls = <<>>

-----------------------------------------------------------------------------
(* Claims about the server's progress callback (SpecServerProgress) *)

\* C31: the progress callback built by the MCP server never rejects: a
\* failed notification is caught and logged and the callback resolves; no
\* notification is sent when the request carries no progress token.
C31_ServerCallbackNeverRejects ==
    /\ progressCb.outcome.type # "rejected"
    /\ (progressCb.pc = "ready" /\ progressCb.calls > 0)
          => /\ progressCb.outcome = Fulfilled(Undefined)
             /\ progressCb.progressLogs = progressCb.calls
    /\ progressCb.failureLogs = progressCb.sendFailures
    /\ progressToken(progressCb.candidate) = Undefined
          => /\ progressCb.sent = <<>>
             /\ progressCb.pc # "sending"
             /\ progressCb.sendFailures = 0

\* The callback has resolved three times: once after its notification was
\* delivered and twice after sending failed.
C31_Witness ==
    /\ progressCb.pc = "ready"
    /\ progressCb.calls = 3
    /\ progressCb.sendFailures = 2
    /\ Len(progressCb.sent) = 1
    /\ progressCb.outcome = Fulfilled(Undefined)

\* C32: in every returned result, in every mode, the reported ScorePair is
\* the pair of the last history entry, and thresholds_met equals thresholdsMet
\* applied to that pair and the caller's two ceilings.
C32_ResultMatchesLastEntry ==
    Settles("fulfilled") =>
        LET result == run.outcome.value
            final == ScoresOf(Last(result.history)) IN
        /\ Len(result.history) >= 1
        /\ result.ai_detection_percent = final.aiDetectionPercent
        /\ result.plagiarism_percent = final.plagiarismPercent
        /\ result.thresholds_met
              = thresholdsMet(final, input.max_ai_percent,
                              input.max_plagiarism_percent)

\* An optimize run whose baseline missed the ceilings and whose second pass
\* met them returns the second pass's pair and a positive verdict.
C32_Witness ==
    /\ Settles("fulfilled")
    /\ input.mode = "optimize"
    /\ Len(run.outcome.value.history) = 3
    /\ ~EntryMeets(run.outcome.value.history[1])
    /\ ~EntryMeets(run.outcome.value.history[2])
    /\ EntryMeets(run.outcome.value.history[3])
    /\ run.outcome.value.thresholds_met
    /\ run.outcome.value.ai_detection_percent
          = run.outcome.value.history[3].ai_detection_percent

\* In optimize mode the loop body runs before any verdict is formed: a
\* returned result reports at least one rewrite pass.
OptimizeRewritesAtLeastOnce ==
    (Settles("fulfilled") /\ input.mode = "optimize")
        => /\ obs.rewriteCalls >= 1
           /\ run.outcome.value.iterations_used >= 1
           /\ Len(run.outcome.value.history) >= 2

\* The first rewrite has just returned, with a text other than the caller's.
FirstRewriteChangedText ==
    /\ input.mode = "optimize"
    /\ run.pc = "p_rescore"
    /\ obs.rewriteCalls = 1
    /\ obs.rewriteOut # input.text

\* C33 (as stated): in optimize mode with max_iterations >= 1 the baseline is
\* not evaluated before the loop: the rewrite collaborator is invoked at least
\* once and iterations_used >= 1 even when the baseline already satisfies both
\* ceilings, so final_text differs from the input whenever the first rewrite
\* changes it.
C33_FinalTextDiffersWheneverFirstRewriteChanges ==
    /\ [](OptimizeRewritesAtLeastOnce)
    /\ [](FirstRewriteChangedText
            => [](Settles("fulfilled")
                    => run.outcome.value.final_text # input.text))

\* C33 (amended): in optimize mode with max_iterations >= 1 the baseline is
\* not evaluated before the loop: the rewrite collaborator is invoked at least
\* once and iterations_used >= 1 even when the baseline already satisfies both
\* ceilings, so final_text is the text returned by the last rewrite executed
\* and differs from the input whenever that text does.
C33_FinalTextIsLastRewrite ==
    /\ OptimizeRewritesAtLeastOnce
    /\ (Settles("fulfilled") /\ input.mode = "optimize")
          => /\ run.outcome.value.final_text = obs.rewriteOut
             /\ (obs.rewriteOut # input.text
                    => run.outcome.value.final_text # input.text)

\* The baseline met both ceilings, yet one rewrite pass ran and its text,
\* different from the input, is the final text.
C33_Witness ==
    /\ Settles("fulfilled")
    /\ input.mode = "optimize"
    /\ EntryMeets(run.outcome.value.history[1])
    /\ obs.rewriteCalls = 1
    /\ run.outcome.value.iterations_used = 1
    /\ run.outcome.value.final_text # input.text

-----------------------------------------------------------------------------
(* Claims about the attempts and waits of withRetry (SpecRetry) *)

\* The attempts made so far that failed.
FailedAttempts == {i \in 1..Len(fnLog) : fnLog[i].type = "rejected"}

\* The attempts and the waits of one withRetry call, at every moment of it.
AttemptsAndWaits ==
    wr_pc # "idle" =>
        /\ fnCalls = Len(fnLog)
        /\ fnCalls <= (IF options.maxRetries < 0 THEN 0 ELSE options.maxRetries + 1)
        \* no attempt follows a successful one
        /\ \A i \in 1..(Len(fnLog) - 1) : fnLog[i].type = "rejected"
        /\ (wr_pc = "returned") <=> (fnLog # <<>> /\ Last(fnLog).type = "fulfilled")
        \* one wait per failed attempt that is followed by another attempt
        /\ wr_pc = "wait" =>
              /\ Last(fnLog).type = "rejected"
              /\ fnCalls <= options.maxRetries
              /\ Len(delays) = fnCalls
        /\ wr_pc = "call" => Len(delays) = fnCalls
        /\ wr_pc = "returned" => Len(delays) = fnCalls - 1
        /\ (wr_pc = "thrown" /\ ~InvalidMaxRetries(options)) =>
              /\ Cardinality(FailedAttempts) = options.maxRetries + 1
              /\ fnCalls = options.maxRetries + 1
              /\ Len(delays) = options.maxRetries

\* A wait begins only when an attempt has just failed, and is followed by
\* the next attempt.
WaitOnlyBetweenAttempts ==
    /\ (Len(delays') > Len(delays)) =>
          /\ wr_pc = "call" /\ wr_pc' = "wait"
          /\ Len(delays') = Len(delays) + 1
          /\ Last(fnLog').type = "rejected"
    /\ (wr_pc = "wait" /\ wr_pc' # "wait") =>
          /\ wr_pc' = "call"
          /\ fnCalls' = fnCalls
    /\ (wr_pc \in {"returned", "thrown"}) => (wr_pc' # "call" \/ fnCalls' = 0)

\* C34: withRetry invokes the operation at most maxRetries+1 times and never
\* again after an attempt succeeded; a backoff wait happens only between a
\* failed attempt and the next attempt, so when all attempts fail there are
\* exactly maxRetries waits and none after the final failed attempt (with
\* maxRetries = 0 the operation runs once and there is no wait).
C34_AttemptsAndWaitsBounded ==
    [](AttemptsAndWaits) /\ [][WaitOnlyBetweenAttempts]_vars

\* Three attempts failed under maxRetries = 2: two waits, then the rejection.
C34_Witness ==
    /\ wr_pc = "thrown"
    /\ options.maxRetries = 2
    /\ fnCalls = 3
    /\ Len(delays) = 2
    /\ Cardinality(FailedAttempts) = 3

-----------------------------------------------------------------------------
(* Claims about BrowserbaseSessionManager (SpecSessionManager) *)

\* The manager's last call was getOrCreateSession / closeSession.
LastWas(op) == sm.last.op = op

\* At the last call: forceNew was not set, a session id was cached, and the
\* status lookup succeeded and reported that session as RUNNING.
ReuseCondition ==
    /\ ~sm.last.opts.forceNew
    /\ sm.last.before.cachedSessionId # NoSession
    /\ sm.last.r.retrieveOk
    /\ sm.last.sessionsBefore[sm.last.before.cachedSessionId] = "RUNNING"

\* The sessions that exist after the last call and did not before it.
NewSessions ==
    {i \in BackendIds : /\ sm.last.sessionsBefore[i] = "ABSENT"
                        /\ sm.last.sessionsAfter[i] # "ABSENT"}

\* C35: getOrCreateSession returns the cached session without creating one
\* if and only if forceNew is not set, a session id is cached and the backend
\* reports that session as RUNNING (a failed status lookup counts as not
\* running); in every other case it makes exactly one creation request, and
\* when it returns, exactly one new session exists and the cached session id
\* is the id of that session (a refused creation request is raised to the
\* caller and leaves the cache as it was).
C35_ReusesIffCachedAndRunning ==
    LastWas("getOrCreateSession") =>
        /\ ReuseCondition <=> sm.last.createRequests = 0
        /\ ReuseCondition =>
              /\ sm.last.outcome.type = "fulfilled"
              /\ sm.last.outcome.value.sessionId = sm.last.before.cachedSessionId
              /\ NewSessions = {}
              /\ sm.last.after = sm.last.before
        /\ ~ReuseCondition =>
              /\ sm.last.createRequests = 1
              /\ sm.last.outcome.type = "fulfilled" =>
                    /\ NewSessions = {sm.last.outcome.value.sessionId}
                    /\ sm.last.after.cachedSessionId = sm.last.outcome.value.sessionId
                    /\ sm.m.cachedSessionId = sm.last.outcome.value.sessionId
              /\ sm.last.outcome.type = "rejected" =>
                    /\ NewSessions = {}
                    /\ sm.last.after = sm.last.before

\* A running session was cached, its status lookup failed, and a new session
\* was created and cached in its place.
C35_Witness ==
    /\ LastWas("getOrCreateSession")
    /\ ~sm.last.opts.forceNew
    /\ sm.last.before.cachedSessionId = 1
    /\ sm.last.sessionsBefore[1] = "RUNNING"
    /\ ~sm.last.r.retrieveOk
    /\ sm.last.outcome.type = "fulfilled"
    /\ sm.last.outcome.value.sessionId = 2
    /\ sm.m.cachedSessionId = 2

\* The release request of the last closeSession call succeeded.
ReleaseSucceeded ==
    sm.last.r.releaseOk /\ sm.last.sessionsBefore[sm.last.id] # "ABSENT"

\* C36 (as stated): after closeSession(s) completes, the cached session id is
\* null if it was equal to s and unchanged if it was a different id;
\* closeSession never changes the cached context id.
C36_CloseClearsMatchingCache ==
    LastWas("closeSession") =>
        /\ sm.last.outcome.type = "fulfilled"
        /\ sm.last.before.cachedSessionId = sm.last.id
              => sm.last.after.cachedSessionId = NoSession
        /\ sm.last.before.cachedSessionId # sm.last.id
              => sm.last.after.cachedSessionId = sm.last.before.cachedSessionId
        /\ sm.last.after.cachedContextId = sm.last.before.cachedContextId

\* C36 (amended): after closeSession(s) completes, the cached session id is
\* null if it was equal to s and the release request succeeded, and is
\* unchanged if it was a different id or the release request failed;
\* closeSession never changes the cached context id.
C36_CloseClearsMatchingCacheOnRelease ==
    LastWas("closeSession") =>
        /\ sm.last.outcome.type = "fulfilled"
        /\ (sm.last.before.cachedSessionId = sm.last.id /\ ReleaseSucceeded)
              => sm.last.after.cachedSessionId = NoSession
        /\ (sm.last.before.cachedSessionId # sm.last.id \/ ~ReleaseSucceeded)
              => sm.last.after.cachedSessionId = sm.last.before.cachedSessionId
        /\ sm.last.after.cachedContextId = sm.last.before.cachedContextId
        /\ sm.m = sm.last.after

\* The cached session was closed: the cache entry is gone, the cached
\* context is still there.
C36_Witness ==
    /\ LastWas("closeSession")
    /\ sm.last.before.cachedSessionId = 2
    /\ sm.last.id = 2
    /\ ReleaseSucceeded
    /\ sm.m.cachedSessionId = NoSession
    /\ sm.m.cachedContextId = 1

-----------------------------------------------------------------------------
(* Claims about the Stagehand instances of a StagehandProvider (SpecProviders) *)

\* The ids createSession has returned to the caller of the Stagehand
\* provider with no closeSession call for them since.
ReturnedAndNotClosedSince == client[Stagehand].open

\* The last call on the Stagehand provider was scoreText(s, ...).
ScoredOnStagehand == client[Stagehand].last.op = "scoreText"

\* C37: on a StagehandProvider, a Stagehand instance is registered for s
\* exactly when createSession has returned s and closeSession(s) has not been
\* called since; scoreText(s, ...) runs the scoring task only then and
\* otherwise fails with 'No Stagehand instance found for session' whatever
\* the browser would have answered, in particular after closeSession(s).
C37_InstanceRegisteredWhileOpen ==
    /\ prov[Stagehand].stagehandInstances = ReturnedAndNotClosedSince
    /\ ScoredOnStagehand =>
          LET s == client[Stagehand].last.id
              outcome == client[Stagehand].last.outcome IN
          /\ s \in ReturnedAndNotClosedSince
                => outcome \in {Fulfilled(StringVal("scores")),
                                Rejected(ErrorObj("grammarly task"))}
          /\ s \notin ReturnedAndNotClosedSince
                => outcome = Rejected(ErrorObj("No Stagehand instance found"))
          /\ (client[Stagehand].last.closedBefore
                /\ s \notin ReturnedAndNotClosedSince)
                => outcome = Rejected(ErrorObj("No Stagehand instance found"))

\* scoreText on a session that createSession had returned and closeSession
\* has closed since, on a cloud that would have run the task: refused.
C37_Witness ==
    /\ ScoredOnStagehand
    /\ client[Stagehand].last.known
    /\ client[Stagehand].last.closedBefore
    /\ client[Stagehand].last.id \notin ReturnedAndNotClosedSince
    /\ ~client[Stagehand].last.refused
    /\ client[Stagehand].last.outcome = Rejected(ErrorObj("No Stagehand instance found"))
    /\ ReturnedAndNotClosedSince # {}

-----------------------------------------------------------------------------
(* Claims about runStagehandGrammarlyTask (SpecTask) *)

\* A step of the main flow failed: its operation's rejection reached the
\* try block (the network-idle wait of step 6 absorbs its own timeout and
\* is then not a failed step).
MainFlowFailed == task.failedStep # 0

\* C38: when any step of runStagehandGrammarlyTask's main flow fails, exactly
\* one fallback extraction is attempted: if it succeeds the task returns the
\* fallback scores with a note marking a partial extraction, and if it also
\* fails the task rejects with the original error of the main flow, not with
\* the fallback's error.
C38_OneFallbackThenOriginalError ==
    /\ task.fallbackAttempts <= 1
    /\ (task.pc = "done" /\ MainFlowFailed) =>
          /\ task.fallbackAttempts = 1
          /\ task.fallbackError = NoError =>
                /\ task.outcome.type = "fulfilled"
                /\ task.outcome.value \in {PartialResult(x) : x \in ExtractResults}
                /\ task.outcome.value.notes.prefix
                      = "Error during task, partial extraction: "
          /\ task.fallbackError # NoError =>
                /\ task.outcome = Rejected(task.error)
                /\ task.fallbackError # task.error
                      => task.outcome # Rejected(task.fallbackError)
    /\ (task.pc = "done" /\ ~MainFlowFailed) => task.fallbackAttempts = 0
    /\ (task.pc = "fallback") => (MainFlowFailed /\ task.fallbackAttempts = 0)

\* Typing the text failed, the fallback extraction failed with another
\* error, and the task rejected with the error of the typing step.
C38_Witness ==
    /\ task.pc = "done"
    /\ task.failedStep = 8
    /\ MainFlow[task.failedStep] = "type text"
    /\ task.error = ErrorObj("e1")
    /\ task.fallbackError = ErrorObj("e2")
    /\ task.fallbackAttempts = 1
    /\ task.outcome = Rejected(ErrorObj("e1"))

-----------------------------------------------------------------------------
(* Claims about the timeout race of the LLM collaborator calls (SpecLlm) *)

\* A call has settled at most once; a settled call's outcome is the model's
\* result when the model resolved first, and a wrapped error when the model
\* failed or the timer fired first; no timer of a settled call is pending.
SettledOnceTimerCleared ==
    /\ llm.settlements <= 1
    /\ (llm.pc = "settled") <=> (llm.settlements = 1)
    /\ (llm.pc = "settled") <=> (llm.outcome # NotSettled)
    /\ llm.pc = "settled" =>
          /\ llm.timer # "pending"
          /\ llm.race \in {"model", "timer"}
          /\ (llm.race = "model" /\ llm.model = "resolved")
                => llm.outcome = Fulfilled(llm.modelValue)
          /\ (llm.race = "model" /\ llm.model = "rejected")
                => llm.outcome = Rejected(WrappedError(llm.fn, llm.modelValue))
          /\ llm.race = "timer"
                => /\ llm.outcome = Rejected(WrappedError(llm.fn, TimeoutError(llm.fn)))
                   /\ llm.outcome.value.timedOut
                   /\ llm.timer = "fired"
    /\ llm.pc = "racing" => (llm.timer = "pending" /\ llm.model = "in flight")

\* What a call settled with stays: a request or a timer that ends later does
\* not settle the call again.
SettledForGood ==
    (llm.pc = "settled" /\ llm'.calls = llm.calls)
        => /\ llm'.outcome = llm.outcome
           /\ llm'.settlements = llm.settlements
           /\ llm'.race = llm.race

\* C39: each LLM collaborator call races the model request against a timeout
\* timer and settles exactly once: with the model's result if it arrives
\* first, or with a wrapped error if the model fails or the timer fires
\* first; whenever the call has settled, on success and on failure alike,
\* its timeout timer has been cleared so no timer of that call is pending.
C39_RaceSettlesOnceTimerCleared ==
    [](SettledOnceTimerCleared) /\ [][SettledForGood]_vars

\* A call that timed out, whose model request resolved afterwards: the
\* outcome is still the wrapped timeout error.
C39_Witness ==
    /\ llm.pc = "settled"
    /\ llm.race = "timer"
    /\ llm.model = "resolved"
    /\ llm.settlements = 1
    /\ llm.outcome.type = "rejected"
    /\ llm.outcome.value.timedOut

====
